---- MODULE Spec2Model ----
(***************************************************************************)
(* Factorio save backup manager.                                           *)
(*                                                                         *)
(* The state machines modelled:                                            *)
(*   Spec       the monitor of backup-factorio.js: the periodic timer, the *)
(*              menu's "Force Check Now", and the asynchronous             *)
(*              checkForChanges runs they start (FactorioBackup);          *)
(*   SpecLarge  one checkForChanges run from its uploadToCloud call on,     *)
(*              request by request: services/rootz.js (upload, uploadSmall,*)
(*              uploadLarge with its uploadPart workers) and               *)
(*              services/buzzheavier.js;                                   *)
(*   SpecLive   Spec with the scheduling of the timer and of the answers;   *)
(*   SpecRanges the byte ranges uploadPart slices out of the file;         *)
(*   SpecLatest getLatestSave applied to a save directory;                 *)
(*   SpecName   formatBackupName applied to a name and then to its output. *)
(* JavaScript runs one callback at a time: every action below is the code  *)
(* that runs between two suspension points (await of real I/O, a timer).   *)
(* Not carried in the state: lastCheckTime (read by the countdown display  *)
(* only), the lines appended by logToFile, and the name formatBackupName   *)
(* builds (it reaches the adapter and the notification, never lastHash).   *)
(***************************************************************************)
EXTENDS Integers, Sequences, FiniteSets, TLC

\* ------------------------------------------------------------------ bounds
\* number of checkForChanges runs that can be suspended at the same time
MaxRuns == 2
\* number of distinct save-file contents the game writes
MaxContents == 2
\* largest totalParts the provider's init answer names
MaxParts == 4
\* largest file size, in bytes, whose byte ranges are computed
MaxSize == 12
\* largest chunkSize, in bytes, the provider's init answer names
MaxChunk == 5
\* largest number of entries of the save directory
MaxFiles == 3
\* latest modification time of an entry, and latest start time of the session
MaxTime == 2
\* largest number of underscore-separated segments of a save's name
MaxSegs == 3
\* largest number of characters of config.backupPrefix
MaxPrefix == 2
MaxDelta == 8

VARIABLES
    \* ---- FactorioBackup (backup-factorio.js)
    config,           \* this.config
    lastHash,         \* this.lastHash
    lastLink,         \* this.lastLink
    lastLinkDate,     \* this.lastLinkDate
    monitorInterval,  \* this.monitorInterval holds a timer (it is truthy)
    handleArmed,      \* the timer that this.monitorInterval holds is armed
    orphans,          \* the armed check timers that this.monitorInterval does not hold
    isReconfiguring,  \* this.isReconfiguring (the stdin-driven monitor)
    saveFile,         \* content of the newest .zip written since startTime, or NoFile
    pc,               \* per run: where the checkForChanges run is suspended
    currentHash,      \* per run: const currentHash
    menu,             \* "menu" (keypress listener registered), "check" (Force Check
                      \* action awaiting its run) or "prompt" (return prompt shown)
    menuRun,          \* the run the menu's Force Check action awaits
    \* ---- observations of the runs (history, not program state)
    candidateSeen,    \* some run has fingerprinted a candidate
    lastThrew,        \* the hash whose upload threw in the most recently finished
                      \* run (NullHash when that run ended otherwise)
    \* ---- one multipart session (services/rootz.js uploadLarge)
    phase,            \* where uploadLarge is suspended
    fileSize,         \* fileSize argument, in MiB
    totalParts,       \* initData.totalParts
    presignedUrls,    \* urlsData.urls has arrived
    parallelism,      \* const parallelism
    i,                \* the batch loop's i
    status,           \* per part: state of its uploadPart call
    attempt,          \* per part: uploadPart's loop variable
    delay,            \* per part: argument of the pending setTimeout, in ms
    etag,             \* per part: etag of the PartResult it resolved with
    puts,             \* per part: number of PUT requests issued
    fails,            \* per part: number of PUT attempts that failed
    uploadedParts,    \* const uploadedParts
    completedParts,   \* let completedParts
    calls,            \* init / batch-urls / complete requests issued, in order
    completeParts,    \* the parts list sent in the complete request
    downloadUrl,      \* what uploadLarge returned
    outOfOrder,       \* (history) some part succeeded while a part of its batch with
                      \* a smaller number had not yet succeeded
    batches,          \* (history) the part numbers of each batch the loop dispatched
    headers,          \* the headers of the PUT that the buzzheavier adapter issued
    \* ---- the slices of uploadPart (services/rootz.js)
    chunkSize,        \* initData.chunkSize, in bytes
    ranges,           \* [start, end) of the parts 1, 2, ... sliced so far
    \* ---- getLatestSave applied to a directory (backup-factorio.js)
    dirEntries,       \* the entries of the save directory, in readdir order
    dirReadable,      \* fs.readdir succeeds on it
    startTime,        \* this.startTime
    latest,           \* what getLatestSave returned, or Pending
    \* ---- formatBackupName applied to a name (backup-factorio.js)
    originalName,     \* the name of the save, without its .zip
    backupPrefix,     \* this.config.backupPrefix, a sequence of characters
    formatted,        \* the names formatBackupName has returned, in order
    \* ---- the menu's input (monitor, backup-factorio.js)
    listeners,        \* how many times onKeypress is registered for 'keypress'
    countdownArmed,   \* the render timer that countdownTimer holds is armed
    renderOrphans,    \* the armed render timers that countdownTimer does not hold
    expanded,         \* const expanded, the nodes of the menu that are open
    selectedIndex,    \* let selectedIndex, counted from 0
    menuItems         \* let menuItems, as render built it last

\* the periodic check timer and what guards it
timerVars == <<monitorInterval, handleArmed, orphans, isReconfiguring>>
checkVars == <<config, lastHash, lastLink, lastLinkDate, timerVars, saveFile,
               pc, currentHash, menu, menuRun, lastThrew, candidateSeen>>
largeVars == <<phase, fileSize, totalParts, presignedUrls, parallelism, i, status,
               attempt, delay, etag, puts, fails, uploadedParts, completedParts,
               calls, completeParts, downloadUrl, outOfOrder, batches, headers>>
dataVars == <<chunkSize, ranges, dirEntries, dirReadable, startTime, latest,
              originalName, backupPrefix, formatted>>
menuVars == <<expanded, selectedIndex, menuItems>>
uiVars == <<listeners, countdownArmed, renderOrphans, menuVars>>
pureVars == <<dataVars, uiVars>>
vars == <<checkVars, largeVars, pureVars>>

\* ------------------------------------------------------------------ values
Null == "null"
\* this.lastHash = null, as a value comparable with a digest
NullHash == <<"null">>
\* no .zip written since startTime
NoFile == <<>>
\* the newest save, holding the given content
File(content) == <<content>>
Runs == 1..MaxRuns
Contents == 1..MaxContents

\* crypto.createHash('md5').update(bytes).digest('hex'): a digest of the content,
\* never the null that lastHash starts with
MD5(content) == <<"md5", content>>

\* config.json as runInteractiveSetup writes it (rootz; buzzheavier anonymous;
\* buzzheavier with an account) or as edited by hand (account missing, unknown service)
Backends == {
    [cloudService |-> "rootz", anonymous |-> FALSE, accountId |-> Null],
    [cloudService |-> "buzzheavier", anonymous |-> TRUE, accountId |-> Null],
    [cloudService |-> "buzzheavier", anonymous |-> FALSE, accountId |-> "acct"],
    [cloudService |-> "buzzheavier", anonymous |-> FALSE, accountId |-> Null],
    [cloudService |-> "dropbox", anonymous |-> FALSE, accountId |-> Null] }
Configs == {[cloudService |-> b.cloudService, anonymous |-> b.anonymous,
             accountId |-> b.accountId, discordWebhook |-> w] :
               b \in Backends, w \in {Null, "hook"}}

\* what a successful upload yields: the URL the adapter built and the string
\* new Date().toLocaleString() gives when it returns
Uploads == {[url |-> <<"url_a">>, date |-> "date_a"],
            [url |-> <<"url_b">>, date |-> "date_b"]}
\* this.lastLink = 'No backups yet', as a value comparable with a URL
NoBackupsYet == <<"No backups yet">>

\* a constructor that starts from the digest of some content
InitialLastHashStale == MD5(1)
\* constructor: this.lastHash = null
InitialLastHash == NullHash

\* a dispatch that calls the buzzheavier adapter without looking at the account id
uploadToCloudUnchecked(cfg) ==
    IF cfg.cloudService \in {"rootz", "buzzheavier"} THEN "adapter" ELSE "undefined"
\* uploadToCloud's dispatch, the part that runs before any await of the network:
\* "adapter" when uploadToRootz / uploadToBuzzheavier is called, "undefined" when
\* the function returns without a value
uploadToCloud(cfg) ==
    IF cfg.cloudService = "rootz" THEN "adapter"
    ELSE IF cfg.cloudService = "buzzheavier"
         THEN IF ~cfg.anonymous /\ cfg.accountId = Null THEN "undefined" ELSE "adapter"
         ELSE "undefined"

\* a comparison that uploads only while no fingerprint has been recorded
ShouldUploadOnce(last, current) == last = NullHash
\* a comparison that uploads on every check
ShouldUploadAlways(last, current) == TRUE
\* if (this.lastHash !== currentHash)
ShouldUpload(last, current) == last # current

\* ------------------------------------------------------------------ services/rootz.js
\* sizes are in MiB: 1024 ** 3 bytes
GiB == 1024
\* SERVICES_CONSTANTS.rootz.multipartThreshold: 4 * 1024 * 1024 bytes
multipartThreshold == 4
\* const maxRetries = 3
maxRetries == 3
\* an uploadPart that gives up one attempt later
LastAttemptLate(a) == a = maxRetries
\* if (attempt === maxRetries - 1) throw error
LastAttempt(a) == a = maxRetries - 1
Parts == 1..MaxParts
\* sizes of the file to upload: one below the multipart threshold, and one for each
\* step of getOptimalParallelism
FileSizes == {multipartThreshold - 1, multipartThreshold, 1 * GiB + 1, 10 * GiB + 1,
              50 * GiB + 1}
\* what a provider answers: the status class (ok is 2xx) and a body that is JSON with
\* success: true ("true"), JSON without a true success ("false"), or not JSON ("text")
Responses == [ok : BOOLEAN, body : {"true", "false", "text"}]
\* if (!initRes.ok) throw ...; await initRes.json()
InitAccepted(res) == res.ok /\ res.body # "text"
\* a session that goes on whatever batch-urls answers
UrlsAcceptedAlways(res) == TRUE
\* await urlsRes.json(); if (!urlsData.success) throw ...
UrlsAccepted(res) == res.body = "true"
\* a session that returns its URL whatever complete answers
CompleteAcceptedAlways(res) == TRUE
\* await completeRes.json(); if (!completeData.success) throw ...
CompleteAccepted(res) == res.body = "true"
\* an uploadSmall that returns its URL whatever the provider answers
SmallAcceptedAlways(res) == TRUE
\* uploadSmall: await response.json(); if (!data.success) throw ...
SmallAccepted(res) == res.body = "true"
\* buzzheavier: if (!response.ok) throw ...
BuzzAccepted(res) == res.ok
\* a dispatch that still sends a file of exactly the threshold in one request
UseSmallInclusive(size) == size <= multipartThreshold
\* headers that carry the account id whenever one is configured
BuzzHeadersWithAccount(cfg) ==
    {<<"Content-Type", "application/zip">>}
        \cup (IF cfg.accountId # Null
              THEN {<<"Authorization", "Bearer", cfg.accountId>>} ELSE {})
\* buzzheavier: headers = { 'Content-Type': 'application/zip' };
\* if (!anonymous && accountId) headers['Authorization'] = `Bearer ${accountId}`
BuzzHeaders(cfg) ==
    {<<"Content-Type", "application/zip">>}
        \cup (IF ~cfg.anonymous /\ cfg.accountId # Null
              THEN {<<"Authorization", "Bearer", cfg.accountId>>} ELSE {})
\* upload(): if (fileSize < config.multipartThreshold) uploadSmall else uploadLarge
UseSmall(size) == size < multipartThreshold
\* the run of checkForChanges whose upload is followed request by request
TheRun == 1
\* the configurations of that run: every backend, with a webhook to notify
LargeConfigs ==
    {c \in Configs : c.discordWebhook = "hook"}
        \cup \* anonymous mode chosen while an account id is still in config.json
             {[cloudService |-> "buzzheavier", anonymous |-> TRUE, accountId |-> "acct",
               discordWebhook |-> "hook"]}
\* the etag header of a 2xx PUT response: a quoted tag, or absent
NoHeader == <<"absent">>
EtagHeaders == {<<"\"", "a", "b", "\"">>, NoHeader}
\* etag: undefined
NoEtag == <<"undefined">>
NoUrl == <<>>
ShortIds == {"abc123", "xyz789"}

Min(a, b) == IF a < b THEN a ELSE b

\* a step function whose boundaries fall to the smaller parallelism
getOptimalParallelismInclusive(size) ==
    IF size >= 50 * GiB THEN 3
    ELSE IF size >= 10 * GiB THEN 4
    ELSE IF size >= 1 * GiB THEN 5
    ELSE 6
getOptimalParallelism(size) ==
    IF size > 50 * GiB THEN 3
    ELSE IF size > 10 * GiB THEN 4
    ELSE IF size > 1 * GiB THEN 5
    ELSE 6

\* res.headers.get('etag')?.replace(/"/g, '')
StripQuotes(header) ==
    IF header = NoHeader THEN NoEtag
    ELSE SelectSeq(header, LAMBDA c : c # "\"")

\* a backoff that grows linearly from one second
RetryDelayLinear(att) == (att + 1) * 2000 - 1000
\* setTimeout(resolve, 2 ** attempt * 1000)
RetryDelayMs(att) == (2 ^ att) * 1000

\* a window one part too wide
BatchPartsWide(first, par, total) == (first + 1)..Min(first + par + 1, total)
\* a loop that stops one part short of totalParts
BatchPartsShort(first, par, total) == (first + 1)..Min(first + par, total - 1)
\* an inner loop that starts only the first part of each window
BatchPartsSingle(first, par, total) == (first + 1)..Min(first + 1, total)
\* for (let j = i + 1; j <= Math.min(i + parallelism, totalParts); j++)
BatchParts(first, par, total) == (first + 1)..Min(first + par, total)

\* a Promise.all that never rejects
BatchNeverRejected(st, batch) == FALSE
\* Promise.all(batch) rejects as soon as one uploadPart promise rejects
BatchRejected(st, batch) == \E p \in batch : st[p] = "failed"
\* a Promise.all that fulfils with the first part that succeeds
BatchFulfilledAny(st, batch) == \E p \in batch : st[p] = "ok"
\* Promise.all(batch) fulfils when every uploadPart promise has fulfilled
BatchFulfilled(st, batch) == \A p \in batch : st[p] = "ok"
\* its value: the PartResults in the order of the batch array
BatchResults(first, batch, tags) ==
    [k \in 1..Cardinality(batch) |-> [partNumber |-> first + k, etag |-> tags[first + k]]]

\* a counter that counts batches instead of parts
CompletedAfterBatch(done, results) == done + 1
\* completedParts += results.length
CompletedAfter(done, results) == done + Len(results)

\* uploadedParts.sort((a, b) => a.partNumber - b.partNumber), as a stable insertion
RECURSIVE Insert(_, _)
Insert(sorted, x) ==
    IF sorted = <<>> THEN <<x>>
    ELSE IF x.partNumber - sorted[Len(sorted)].partNumber >= 0
         THEN Append(sorted, x)
         ELSE Append(Insert(SubSeq(sorted, 1, Len(sorted) - 1), x), sorted[Len(sorted)])
RECURSIVE SortDescending(_)
SortDescending(parts) ==
    IF parts = <<>> THEN <<>>
    ELSE LET rest == SortDescending(Tail(parts)) IN
         LET bigger == SelectSeq(rest, LAMBDA y : y.partNumber > Head(parts).partNumber) IN
         LET others == SelectSeq(rest, LAMBDA y : y.partNumber <= Head(parts).partNumber) IN
         bigger \o <<Head(parts)>> \o others
RECURSIVE SortByPartNumber(_)
SortByPartNumber(parts) ==
    IF parts = <<>> THEN <<>>
    ELSE Insert(SortByPartNumber(SubSeq(parts, 1, Len(parts) - 1)), parts[Len(parts)])

\* ------------------------------------------------------------------ Init
InitLargeIdle ==
    /\ phase = "idle"
    /\ fileSize = 0
    /\ totalParts = 0
    /\ presignedUrls = FALSE
    /\ parallelism = 0
    /\ i = 0
    /\ status = [p \in 1..MaxParts |-> "idle"]
    /\ attempt = [p \in 1..MaxParts |-> 0]
    /\ delay = [p \in 1..MaxParts |-> 0]
    /\ etag = [p \in 1..MaxParts |-> NoEtag]
    /\ puts = [p \in 1..MaxParts |-> 0]
    /\ fails = [p \in 1..MaxParts |-> 0]
    /\ uploadedParts = <<>>
    /\ completedParts = 0
    /\ calls = <<>>
    /\ completeParts = <<>>
    /\ downloadUrl = NoUrl
    /\ outOfOrder = FALSE
    /\ batches = <<>>
    /\ headers = {}

\* getLatestSave has not been applied
Pending == <<"pending">>
InitDirIdle ==
    /\ dirEntries = <<>>
    /\ dirReadable = TRUE
    /\ startTime = 0
    /\ latest = Pending

\* no name has been formatted
InitNameIdle ==
    /\ originalName = <<>>
    /\ backupPrefix = <<>>
    /\ formatted = <<>>

\* the entries render pushes
Toggle(value, node) == [value |-> value, type |-> "toggle", node |-> node,
                        disabled |-> FALSE]
MenuAction(value, disabled) == [value |-> value, type |-> "action", node |-> Null,
                                disabled |-> disabled]
Separator == [value |-> "sep", type |-> "separator", node |-> Null,
              disabled |-> FALSE]
\* the entries under a toggle, pushed only when its node is expanded
Under(exp, node, items) == IF node \in exp THEN items ELSE <<>>

\* the menuItems that render() builds from `expanded` and this.config; the download
\* entry is disabled as the configurations here carry no discordBotToken
render(exp, cfg) ==
    <<Toggle("toggle_actions", "actions")>>
    \o Under(exp, "actions",
             <<MenuAction("check", FALSE), MenuAction("upload", FALSE),
               MenuAction("download", TRUE), MenuAction("view_log", FALSE)>>)
    \o <<Toggle("toggle_settings", "settings")>>
    \o Under(exp, "settings",
             <<Toggle("toggle_config_cloud", "config_cloud")>>
             \o Under(exp, "config_cloud",
                      <<MenuAction("conf_cloud_service", FALSE)>>
                      \o (IF cfg.cloudService = "buzzheavier"
                          THEN <<MenuAction("conf_buzz_account", FALSE)>>
                          ELSE <<>>))
             \o <<Toggle("toggle_config_discord", "config_discord")>>
             \o Under(exp, "config_discord",
                      <<MenuAction("conf_discord_webhook", FALSE),
                        MenuAction("conf_discord_bot", FALSE)>>)
             \o <<Toggle("toggle_config_general", "config_general")>>
             \o Under(exp, "config_general",
                      <<MenuAction("conf_check_interval", FALSE),
                        MenuAction("conf_backup_prefix", FALSE),
                        MenuAction("conf_obfuscate_secrets", FALSE)>>))
    \o <<Separator, MenuAction("exit", FALSE)>>

\* monitor() has registered onKeypress, armed the render timer and rendered the menu
\* with nothing expanded and the first entry selected
InitUi ==
    /\ listeners = 1
    /\ countdownArmed = TRUE
    /\ renderOrphans = 0
    /\ expanded = {}
    /\ selectedIndex = 0
    /\ menuItems = render({}, config)

\* no slice has been computed
InitPureIdle ==
    /\ InitUi
    /\ chunkSize = 0
    /\ ranges = <<>>
    /\ InitDirIdle
    /\ InitNameIdle

\* constructor, then monitor() up to its first await: startAutoBackup() armed the timer
\* and the keypress listener is registered
InitCheck ==
    /\ config \in Configs
    /\ lastHash = InitialLastHash
    /\ lastLink = NoBackupsYet
    /\ lastLinkDate = "N/A"
    /\ monitorInterval = TRUE
    /\ handleArmed = TRUE
    /\ orphans = 0
    /\ isReconfiguring = FALSE
    /\ saveFile = NoFile
    /\ pc = [r \in Runs |-> "idle"]
    /\ currentHash = [r \in Runs |-> NullHash]
    /\ menu = "menu"
    /\ menuRun = 0
    /\ lastThrew = NullHash
    /\ candidateSeen = FALSE

\* what InitCheck leaves to the other machines
InitCheckIdle ==
    /\ config = [cloudService |-> "rootz", anonymous |-> FALSE, accountId |-> Null,
                 discordWebhook |-> Null]
    /\ lastHash = InitialLastHash
    /\ lastLink = NoBackupsYet
    /\ lastLinkDate = "N/A"
    /\ monitorInterval = TRUE
    /\ handleArmed = TRUE
    /\ orphans = 0
    /\ isReconfiguring = FALSE
    /\ saveFile = NoFile
    /\ pc = [r \in Runs |-> "idle"]
    /\ currentHash = [r \in Runs |-> NullHash]
    /\ menu = "menu"
    /\ menuRun = 0
    /\ lastThrew = NullHash
    /\ candidateSeen = FALSE

Init == InitCheck /\ InitLargeIdle /\ InitPureIdle

\* ------------------------------------------------------------------ checkForChanges
FreeRuns == {r \in Runs : pc[r] = "idle"}
NextRun == CHOOSE r \in FreeRuns : \A q \in FreeRuns : r <= q

\* checkForChanges() up to `await this.getLatestSave()` (fs.readdir pending)
StartCheck(r) ==
    /\ pc' = [pc EXCEPT ![r] = "getLatestSave"]

\* a checkForChanges without its catch block: an error leaves the run rejected
EndCheckRejects(r, threw) ==
    /\ pc' = [pc EXCEPT ![r] = IF threw = NullHash THEN "idle" ELSE "rejected"]
    /\ currentHash' = [currentHash EXCEPT ![r] = NullHash]
    /\ lastThrew' = threw
    /\ UNCHANGED <<menu, menuRun>>
\* the run returns or its catch block has logged: the promise of checkForChanges
\* settles, and the menu action awaiting it (if any) goes on to its return prompt
EndCheck(r, threw) ==
    /\ pc' = [pc EXCEPT ![r] = "idle"]
    /\ currentHash' = [currentHash EXCEPT ![r] = NullHash]
    /\ lastThrew' = threw
    /\ IF menu = "check" /\ menuRun = r
       THEN menu' = "prompt" /\ menuRun' = 0
       ELSE UNCHANGED <<menu, menuRun>>

\* the game writes a new save (autosave or manual save) into the save directory
WriteSave(content) ==
    /\ saveFile # File(content)
    /\ saveFile' = File(content)
    /\ UNCHANGED <<config, lastHash, lastLink, lastLinkDate, timerVars, pc,
                   currentHash, menu, menuRun, lastThrew, candidateSeen>>
    /\ UNCHANGED largeVars
    /\ UNCHANGED pureVars

\* the number of armed check timers
TimersArmed == orphans + (IF handleArmed THEN 1 ELSE 0)

\* a startAutoBackup that arms a timer without clearing the one it holds
StartAutoBackupNoClear ==
    /\ monitorInterval' = TRUE
    /\ handleArmed' = TRUE
    /\ orphans' = TimersArmed
    /\ UNCHANGED isReconfiguring
\* startAutoBackup() / startMonitoring(): if (this.monitorInterval)
\* clearInterval(this.monitorInterval); this.monitorInterval = setInterval(...)
StartAutoBackup ==
    /\ monitorInterval' = TRUE
    /\ handleArmed' = TRUE
    /\ orphans' = orphans
    /\ UNCHANGED isReconfiguring

\* the setInterval callback of an armed check timer fires
TimerTick ==
    /\ TimersArmed > 0
    /\ FreeRuns # {}
    /\ StartCheck(NextRun)
    /\ UNCHANGED <<config, lastHash, lastLink, lastLinkDate, timerVars, saveFile,
                   currentHash, menu, menuRun, lastThrew, candidateSeen>>
    /\ UNCHANGED largeVars
    /\ UNCHANGED pureVars

\* the armed render timers
RenderTimers == renderOrphans + (IF countdownArmed THEN 1 ELSE 0)

\* an action that leaves the listener and the render timer in place
PauseInputNot ==
    /\ UNCHANGED uiVars
\* an action starts: process.stdin.removeListener('keypress', onKeypress);
\* clearInterval(countdownTimer)
PauseInput ==
    /\ listeners' = IF listeners > 0 THEN listeners - 1 ELSE 0
    /\ countdownArmed' = FALSE
    /\ UNCHANGED renderOrphans
    /\ UNCHANGED menuVars
\* the end of finally: process.stdin.on('keypress', onKeypress);
\* countdownTimer = setInterval(() => render(), 1000); render()
ResumeInput ==
    /\ listeners' = listeners + 1
    /\ renderOrphans' = RenderTimers
    /\ countdownArmed' = TRUE
    /\ menuItems' = render(expanded, config)
    /\ UNCHANGED <<expanded, selectedIndex>>

\* onKeypress, return on the menu item "Force Check Now": the listener is removed and
\* the action awaits checkForChanges
ForceCheck ==
    /\ menu = "menu"
    /\ listeners > 0
    /\ FreeRuns # {}
    /\ menu' = "check"
    /\ menuRun' = NextRun
    /\ StartCheck(NextRun)
    /\ PauseInput
    /\ UNCHANGED <<config, lastHash, lastLink, lastLinkDate, timerVars, saveFile,
                   currentHash, lastThrew, candidateSeen>>
    /\ UNCHANGED largeVars
    /\ UNCHANGED dataVars

\* the return prompt of a menu action ends (key pressed or countdown over): the
\* keypress listener is registered again
ReturnToMenu ==
    /\ menu = "prompt"
    /\ menu' = "menu"
    /\ ResumeInput
    /\ UNCHANGED <<config, lastHash, lastLink, lastLinkDate, timerVars, saveFile,
                   pc, currentHash, menuRun, lastThrew, candidateSeen>>
    /\ UNCHANGED largeVars
    /\ UNCHANGED dataVars

\* getLatestSave settles: null when the directory cannot be read or holds no .zip
\* written since startTime; otherwise calculateHash starts reading the file
GetLatestSaveReturns(r, readable) ==
    /\ pc[r] = "getLatestSave"
    /\ IF readable /\ saveFile # NoFile
       THEN /\ pc' = [pc EXCEPT ![r] = "calculateHash"]
            /\ UNCHANGED <<currentHash, menu, menuRun, lastThrew>>
       ELSE EndCheck(r, NullHash)
    /\ UNCHANGED <<config, lastHash, lastLink, lastLinkDate, timerVars, saveFile,
                   candidateSeen>>
    /\ UNCHANGED largeVars
    /\ UNCHANGED pureVars

\* calculateHash throws (neither Bun.file nor fs.readFile can read the file): catch
CalculateHashThrows(r) ==
    /\ pc[r] = "calculateHash"
    /\ EndCheck(r, NullHash)
    /\ UNCHANGED <<config, lastHash, lastLink, lastLinkDate, timerVars, saveFile,
                   candidateSeen>>
    /\ UNCHANGED largeVars
    /\ UNCHANGED pureVars

\* calculateHash settles with the digest of what the file holds now; the comparison
\* with lastHash and uploadToCloud's dispatch run in the same turn
HashReturned(r) ==
    /\ pc[r] = "calculateHash"
    /\ saveFile # NoFile
    /\ candidateSeen' = TRUE
    /\ LET hash == MD5(saveFile[1]) IN
       IF ShouldUpload(lastHash, hash)
       THEN IF uploadToCloud(config) = "adapter"
            THEN \* await uploadToRootz(...) / await uploadToBuzzheavier(...)
                 /\ pc' = [pc EXCEPT ![r] = "uploadToCloud"]
                 /\ currentHash' = [currentHash EXCEPT ![r] = hash]
                 /\ UNCHANGED <<lastHash, menu, menuRun, lastThrew>>
            ELSE \* downloadUrl is undefined: if (downloadUrl) is skipped
                 /\ lastHash' = hash
                 /\ EndCheck(r, NullHash)
       ELSE /\ EndCheck(r, NullHash)
            /\ UNCHANGED lastHash
    /\ UNCHANGED <<config, lastLink, lastLinkDate, timerVars, saveFile>>

CalculateHashReturns(r) ==
    /\ HashReturned(r)
    /\ UNCHANGED largeVars
    /\ UNCHANGED pureVars

\* the adapter throws: the catch block of checkForChanges logs the error
UploadThrew(r) ==
    /\ pc[r] = "uploadToCloud"
    /\ EndCheck(r, currentHash[r])
    /\ UNCHANGED <<config, lastHash, lastLink, lastLinkDate, timerVars, saveFile,
                   candidateSeen>>

\* the adapter throws (non-2xx, success:false, transport error)
UploadThrows(r) ==
    /\ UploadThrew(r)
    /\ UNCHANGED largeVars
    /\ UNCHANGED pureVars

\* a check that notifies whether or not a webhook is configured
ShouldNotifyAlways(cfg) == TRUE
\* if (this.config.discordWebhook)
ShouldNotify(cfg) == cfg.discordWebhook # Null

\* the adapter returns a download URL
UploadReturned(r, url, date) ==
    /\ pc[r] = "uploadToCloud"
    /\ lastLink' = url
    /\ lastLinkDate' = date
    /\ IF ShouldNotify(config)
       THEN \* await sendNotification(...)
            /\ pc' = [pc EXCEPT ![r] = "sendNotification"]
            /\ UNCHANGED <<lastHash, currentHash, menu, menuRun, lastThrew>>
       ELSE /\ lastHash' = currentHash[r]
            /\ EndCheck(r, NullHash)
    /\ UNCHANGED <<config, timerVars, saveFile, candidateSeen>>

UploadReturns(r, up) ==
    /\ UploadReturned(r, up.url, up.date)
    /\ UNCHANGED largeVars
    /\ UNCHANGED pureVars

\* sendNotification settles: the webhook answered 2xx (ok), or it answered non-2xx or
\* fetch threw, which sendNotification logs; either way it returns and never throws
SendNotificationReturns(r, ok) ==
    /\ pc[r] = "sendNotification"
    /\ lastHash' = currentHash[r]
    /\ EndCheck(r, NullHash)
    /\ UNCHANGED <<config, lastLink, lastLinkDate, timerVars, saveFile,
                   candidateSeen>>
    /\ UNCHANGED largeVars
    /\ UNCHANGED pureVars

Next ==
    \/ \E content \in Contents : WriteSave(content)
    \/ TimerTick
    \/ ForceCheck
    \/ ReturnToMenu
    \/ \E r \in Runs, readable \in BOOLEAN : GetLatestSaveReturns(r, readable)
    \/ \E r \in Runs : CalculateHashThrows(r)
    \/ \E r \in Runs : CalculateHashReturns(r)
    \/ \E r \in Runs : UploadThrows(r)
    \/ \E r \in Runs, up \in Uploads : UploadReturns(r, up)
    \/ \E r \in Runs, ok \in BOOLEAN : SendNotificationReturns(r, ok)

Spec == Init /\ [][Next]_vars

\* ------------------------------------------------------------------ claims on Spec
\* the step is run r's, and in it (or before it) r's uploadToCloud returned a URL
UrlReturned(r) ==
    \/ pc[r] = "sendNotification" /\ pc'[r] = "idle"
    \/ pc[r] = "uploadToCloud" /\ pc'[r] # "uploadToCloud" /\ lastThrew' = NullHash
\* in this step run r calls uploadToCloud: either an adapter is now awaited, or the
\* dispatch returned undefined and the run went on to record the hash
CallsUploadToCloud(r) ==
    \/ pc'[r] = "uploadToCloud"
    \/ pc'[r] = "idle" /\ lastHash' # lastHash

\* C1: lastHash is assigned a new value only in a checkForChanges run whose
\* uploadToCloud call returned a download URL; a run without a URL (adapter threw,
\* credential missing, unsupported service) leaves it unchanged.
C1_LastHashOnlyAfterUrl ==
    [][lastHash' # lastHash => \E r \in Runs : UrlReturned(r)]_vars

\* C2: at most one checkForChanges run is in progress at any time.
C2_AtMostOneCheck == Cardinality({r \in Runs : pc[r] # "idle"}) <= 1

\* C3: when the adapter throws during a check, lastHash keeps its value, and the
\* next check to fingerprint the same content after that check ended decides to
\* upload it again.
C3_ThrowThenRetry ==
    [][/\ \A r \in Runs : UploadThrows(r) => lastHash' = lastHash
       /\ \A r \in Runs :
              CalculateHashReturns(r) /\ lastThrew = MD5(saveFile[1])
                  => CallsUploadToCloud(r)]_vars

C5_FirstCheckInvokesAdapter ==
    [][\A r \in Runs :
          CalculateHashReturns(r) /\ ~candidateSeen => pc'[r] = "uploadToCloud"]_vars
\* C5 amended: lastHash starts unset, so the first check that finds (and
\* fingerprints) a candidate always calls uploadToCloud, whatever the content; the
\* adapter is invoked when the service is rootz, or buzzheavier in anonymous mode or
\* with an accountId, and otherwise uploadToCloud returns without invoking one.
C5_FirstCheckCallsUploadToCloud ==
    [][\A r \in Runs :
          CalculateHashReturns(r) /\ ~candidateSeen
              => /\ lastHash = NullHash
                 /\ CallsUploadToCloud(r)
                 /\ pc'[r] = "uploadToCloud" <=> uploadToCloud(config) = "adapter"]_vars
\* the first fingerprinted candidate is being uploaded by an adapter
C5_Witness ==
    /\ candidateSeen
    /\ lastHash = NullHash
    /\ \E r \in Runs : pc[r] = "uploadToCloud" /\ currentHash[r] = MD5(MaxContents)

\* the step is a failure inside run r: the directory cannot be read, hashing
\* throws, the adapter throws, or the notification fails
FailsInside(r) ==
    \/ GetLatestSaveReturns(r, FALSE)
    \/ CalculateHashThrows(r)
    \/ UploadThrows(r)
    \/ SendNotificationReturns(r, FALSE)

\* C17: checkForChanges never propagates an error: whatever fails inside it
\* (directory read, hashing, adapter, notification), the run ends normally, the
\* periodic timer stays armed, and a later timer tick starts another check.
C17_ErrorsNeverPropagate ==
    [][/\ \A r \in Runs :
              FailsInside(r) => /\ pc'[r] = "idle"
                                /\ monitorInterval'
                                /\ FreeRuns' # {}
       /\ monitorInterval'
       /\ TimerTick => \E r \in Runs : pc[r] = "idle" /\ pc'[r] = "getLatestSave"]_vars
\* the adapter threw in the run that ended last, and a check has been started since
C17_Witness ==
    /\ lastThrew # NullHash
    /\ monitorInterval
    /\ \E r \in Runs : pc[r] = "getLatestSave" /\ \A q \in Runs \ {r} : pc[q] = "idle"

\* C18: in a check a notification is emitted only after the adapter returned a URL,
\* and only when a webhook is configured, at most once per upload (the run ends when
\* it settles); a failing notification (non-2xx or transport error) does not
\* prevent lastHash from being updated for that successful upload.
C18_NotifyAfterUrl ==
    [][\A r \in Runs :
          /\ pc'[r] = "sendNotification" /\ pc[r] # "sendNotification"
                 => /\ \E up \in Uploads : UploadReturns(r, up)
                    /\ lastLink' \in {up.url : up \in Uploads}
                    /\ config.discordWebhook # Null
          /\ pc[r] = "sendNotification" => pc'[r] \in {"sendNotification", "idle"}
          /\ \A ok \in BOOLEAN :
                 SendNotificationReturns(r, ok)
                     => lastHash' = currentHash[r] /\ lastHash' # NullHash]_vars
\* an upload has been notified and its fingerprint recorded
C18_Witness ==
    /\ config.discordWebhook # Null
    /\ lastLink # NoBackupsYet
    /\ lastHash # NullHash
    /\ \A r \in Runs : pc[r] = "idle"

\* ------------------------------------------------------------------ the monitor, scheduled
\* the configurations for which uploadToCloud calls an adapter
LiveConfigs == {c \in Configs : uploadToCloud(c) = "adapter"}

InitLive ==
    /\ InitCheck
    /\ config \in LiveConfigs
    /\ InitLargeIdle
    /\ InitPureIdle

\* setInterval keeps calling back; every directory read, file read and request is
\* answered, and each of them succeeds on some attempt if it is attempted again and
\* again (the file system and the provider are not down for ever)
Fairness ==
    /\ WF_vars(TimerTick)
    /\ \A r \in Runs :
           /\ SF_vars(GetLatestSaveReturns(r, TRUE))
           /\ SF_vars(CalculateHashReturns(r))
           /\ SF_vars(\E up \in Uploads : UploadReturns(r, up))
           /\ WF_vars(\E ok \in BOOLEAN : SendNotificationReturns(r, ok))

SpecLive == InitLive /\ [][Next]_vars /\ Fairness

\* C19: under fairness (the timer keeps firing and the adapter succeeds on some
\* attempt), if the content of the latest save differs from what lastHash records and
\* stays the same, then eventually lastHash equals its fingerprint; and lastHash is
\* only ever set by a check whose adapter returned a URL for the content it
\* fingerprinted (at-least-once delivery).
C19_EventuallyDelivered ==
    /\ [][lastHash' # lastHash
             => \E r \in Runs : UrlReturned(r) /\ lastHash' = currentHash[r]]_vars
    /\ \A content \in Contents :
           (saveFile = File(content) /\ lastHash # MD5(content))
               ~> (saveFile # File(content) \/ lastHash = MD5(content))
\* a second content has been delivered after a first one
C19_Witness ==
    /\ saveFile = File(MaxContents)
    /\ lastHash = MD5(MaxContents)
    /\ lastLink # NoBackupsYet
    /\ lastThrew # NullHash

\* ------------------------------------------------------------------ the adapters
CompleteIssued == \E k \in DOMAIN calls : calls[k] = "complete"

\* a checkForChanges run has found a save of fileSize MiB and awaits calculateHash
InitLarge ==
    /\ config \in LargeConfigs
    /\ lastHash = InitialLastHash
    /\ lastLink = NoBackupsYet
    /\ lastLinkDate = "N/A"
    /\ monitorInterval = TRUE
    /\ handleArmed = TRUE
    /\ orphans = 0
    /\ isReconfiguring = FALSE
    /\ saveFile = File(MaxContents)
    /\ pc = [r \in Runs |-> IF r = TheRun THEN "calculateHash" ELSE "idle"]
    /\ currentHash = [r \in Runs |-> NullHash]
    /\ menu = "menu"
    /\ menuRun = 0
    /\ lastThrew = NullHash
    /\ candidateSeen = FALSE
    /\ phase = "idle"
    /\ fileSize \in FileSizes
    /\ totalParts = 0
    /\ presignedUrls = FALSE
    /\ parallelism = 0
    /\ i = 0
    /\ status = [p \in Parts |-> "idle"]
    /\ attempt = [p \in Parts |-> 0]
    /\ delay = [p \in Parts |-> 0]
    /\ etag = [p \in Parts |-> NoEtag]
    /\ puts = [p \in Parts |-> 0]
    /\ fails = [p \in Parts |-> 0]
    /\ uploadedParts = <<>>
    /\ completedParts = 0
    /\ calls = <<>>
    /\ completeParts = <<>>
    /\ downloadUrl = NoUrl
    /\ outOfOrder = FALSE
    /\ batches = <<>>
    /\ headers = {}
    /\ InitPureIdle

\* the adapter throws: its catch logs and rethrows, uploadToCloud rejects, and the
\* catch of checkForChanges ends the run
AdapterThrows ==
    /\ phase' = "failed"
    /\ UNCHANGED downloadUrl
    /\ UploadThrew(TheRun)

\* the adapter returns url: uploadToCloud returns it and checkForChanges goes on
AdapterReturns(url) ==
    /\ phase' = "done"
    /\ downloadUrl' = url
    /\ \E up \in Uploads : UploadReturned(TheRun, url, up.date)

\* calculateHash settles and uploadToCloud returns without calling an adapter
\* (account id missing, or service unknown): no request is made
UploadToCloudReturnsUndefined ==
    /\ phase = "idle"
    /\ uploadToCloud(config) = "undefined"
    /\ HashReturned(TheRun)
    /\ UNCHANGED largeVars
    /\ UNCHANGED pureVars

\* calculateHash settles, uploadToCloud calls the buzzheavier adapter: PUT of the file
BuzzStart ==
    /\ phase = "idle"
    /\ uploadToCloud(config) = "adapter"
    /\ config.cloudService = "buzzheavier"
    /\ HashReturned(TheRun)
    /\ phase' = "buzz"
    /\ calls' = Append(calls, "put")
    /\ headers' = BuzzHeaders(config)
    /\ UNCHANGED <<fileSize, totalParts, presignedUrls, parallelism, i, status, attempt,
                   delay, etag, puts, fails, uploadedParts, completedParts,
                   completeParts, downloadUrl, outOfOrder, batches>>
    /\ UNCHANGED pureVars

\* the answer to buzzheavier's PUT arrives
BuzzResponds(res) ==
    /\ phase = "buzz"
    /\ IF BuzzAccepted(res)
       THEN AdapterReturns(<<"https://buzzheavier.com", "/f/", "uniqueFileName">>)
       ELSE AdapterThrows
    /\ UNCHANGED <<fileSize, totalParts, presignedUrls, parallelism, i, status, attempt,
                   delay, etag, puts, fails, uploadedParts, completedParts, calls,
                   completeParts, outOfOrder, batches, headers>>
    /\ UNCHANGED pureVars

\* calculateHash settles, uploadToCloud calls rootz's upload(), the file is below the
\* threshold: uploadSmall posts the form
UploadSmallStart ==
    /\ phase = "idle"
    /\ config.cloudService = "rootz"
    /\ UseSmall(fileSize)
    /\ HashReturned(TheRun)
    /\ phase' = "small"
    /\ calls' = Append(calls, "upload")
    /\ UNCHANGED <<fileSize, totalParts, presignedUrls, parallelism, i, status, attempt,
                   delay, etag, puts, fails, uploadedParts, completedParts,
                   completeParts, downloadUrl, outOfOrder,
                   batches, headers>>
    /\ UNCHANGED pureVars

\* the answer to uploadSmall's POST arrives
SmallResponds(res, shortId) ==
    /\ phase = "small"
    /\ IF SmallAccepted(res)
       THEN AdapterReturns(<<"https://www.rootz.so", "/d/", shortId>>)
       ELSE AdapterThrows
    /\ UNCHANGED <<fileSize, totalParts, presignedUrls, parallelism, i, status, attempt,
                   delay, etag, puts, fails, uploadedParts, completedParts, calls,
                   completeParts, outOfOrder, batches, headers>>
    /\ UNCHANGED pureVars

\* calculateHash settles, uploadToCloud calls rootz's upload(), the file reaches the
\* threshold: uploadLarge up to the await of the init request
UploadLargeStart ==
    /\ phase = "idle"
    /\ config.cloudService = "rootz"
    /\ ~UseSmall(fileSize)
    /\ HashReturned(TheRun)
    /\ phase' = "init"
    /\ calls' = Append(calls, "init")
    /\ UNCHANGED <<fileSize, totalParts, presignedUrls, parallelism, i, status, attempt,
                   delay, etag, puts, fails, uploadedParts, completedParts,
                   completeParts, downloadUrl, outOfOrder,
                   batches, headers>>
    /\ UNCHANGED pureVars

\* the init response arrives: not ok (or a body that is not JSON) throws; otherwise totalParts is taken from it
\* and the batch-urls request is issued
InitResponds(res, total) ==
    /\ phase = "init"
    /\ IF InitAccepted(res)
       THEN /\ totalParts' = total
            /\ calls' = Append(calls, "batch-urls")
            /\ phase' = "urls"
            /\ UNCHANGED downloadUrl
            /\ UNCHANGED checkVars
       ELSE /\ AdapterThrows
            /\ UNCHANGED <<totalParts, calls>>
    /\ UNCHANGED <<fileSize, presignedUrls, parallelism, i, status, attempt, delay, etag,
                   puts, fails, uploadedParts, completedParts, completeParts,
                   outOfOrder, batches, headers>>
    /\ UNCHANGED pureVars

\* the loop goes on from i = first with the parts collected so far: either the next
\* batch of uploadPart calls issues its PUTs, or the loop is over and the sorted parts
\* are sent in the complete request
ContinueFrom(first, par, collected, st) ==
    /\ i' = first
    /\ uploadedParts' = collected
    /\ IF first < totalParts
       THEN LET batch == BatchParts(first, par, totalParts) IN
            /\ status' = [p \in Parts |-> IF p \in batch THEN "put" ELSE st[p]]
            /\ attempt' = [p \in Parts |-> IF p \in batch THEN 0 ELSE attempt[p]]
            /\ puts' = [p \in Parts |-> IF p \in batch THEN puts[p] + 1 ELSE puts[p]]
            /\ batches' = Append(batches, batch)
            /\ phase' = "parts"
            /\ UNCHANGED <<calls, completeParts>>
       ELSE /\ status' = st
            /\ completeParts' = SortByPartNumber(collected)
            /\ calls' = Append(calls, "complete")
            /\ phase' = "complete"
            /\ UNCHANGED <<attempt, puts, batches>>

\* the batch-urls response arrives: without success: true it throws; otherwise the batch loop starts
UrlsResponds(res) ==
    /\ phase = "urls"
    /\ IF UrlsAccepted(res)
       THEN /\ presignedUrls' = TRUE
            /\ parallelism' = getOptimalParallelism(fileSize)
            /\ completedParts' = 0
            /\ ContinueFrom(0, getOptimalParallelism(fileSize), <<>>, status)
            /\ UNCHANGED downloadUrl
            /\ UNCHANGED checkVars
       ELSE /\ AdapterThrows
            /\ UNCHANGED <<presignedUrls, parallelism, i, status, attempt, puts,
                           uploadedParts, completedParts, calls, completeParts,
                           batches>>
    /\ UNCHANGED <<fileSize, totalParts, delay, etag, fails, outOfOrder, headers>>
    /\ UNCHANGED pureVars

\* the PUT of part p settles. 2xx: uploadPart resolves with { partNumber, etag }.
\* Otherwise the catch either throws (last attempt) or starts the backoff timer.
\* Then Promise.all of the batch the loop awaits reacts: it rejects (uploadLarge
\* throws), or it fulfils (results pushed, counter advanced, loop continued).
PutResponds(p, ok, header) ==
    /\ status[p] = "put"
    /\ LET st == [status EXCEPT ![p] =
                      IF ok THEN "ok"
                      ELSE IF LastAttempt(attempt[p]) THEN "failed" ELSE "wait"]
           tags == [etag EXCEPT ![p] = IF ok THEN StripQuotes(header) ELSE @]
           batch == BatchParts(i, parallelism, totalParts)
       IN
       /\ etag' = tags
       /\ fails' = [fails EXCEPT ![p] = IF ok THEN @ ELSE @ + 1]
       /\ delay' = [delay EXCEPT ![p] =
                        IF ~ok /\ ~LastAttempt(attempt[p])
                        THEN RetryDelayMs(attempt[p]) ELSE 0]
       /\ outOfOrder' = (outOfOrder \/ (ok /\ \E q \in batch : q < p /\ status[q] # "ok"))
       /\ IF phase = "parts" /\ BatchRejected(st, batch)
          THEN /\ AdapterThrows
               /\ status' = st
               /\ UNCHANGED <<i, attempt, puts, uploadedParts, completedParts, calls,
                              completeParts, batches>>
          ELSE IF phase = "parts" /\ BatchFulfilled(st, batch)
          THEN LET results == BatchResults(i, batch, tags) IN
               /\ completedParts' = CompletedAfter(completedParts, results)
               /\ ContinueFrom(i + parallelism, parallelism, uploadedParts \o results, st)
               /\ UNCHANGED downloadUrl
               /\ UNCHANGED checkVars
          ELSE /\ status' = st
               /\ UNCHANGED <<phase, i, attempt, puts, uploadedParts, completedParts,
                              calls, completeParts, downloadUrl, batches>>
               /\ UNCHANGED checkVars
    /\ UNCHANGED <<fileSize, totalParts, presignedUrls, parallelism, headers>>
    /\ UNCHANGED pureVars

\* the backoff timer of part p fires: attempt++ and the next PUT is issued
BackoffElapses(p) ==
    /\ status[p] = "wait"
    /\ status' = [status EXCEPT ![p] = "put"]
    /\ attempt' = [attempt EXCEPT ![p] = @ + 1]
    /\ puts' = [puts EXCEPT ![p] = @ + 1]
    /\ delay' = [delay EXCEPT ![p] = 0]
    /\ UNCHANGED <<phase, fileSize, totalParts, presignedUrls, parallelism, i, etag,
                   fails, uploadedParts, completedParts, calls, completeParts,
                   downloadUrl, outOfOrder, batches, headers>>
    /\ UNCHANGED checkVars
    /\ UNCHANGED pureVars

\* the complete response arrives: without success: true it throws, otherwise the URL is returned
CompleteResponds(res, shortId) ==
    /\ phase = "complete"
    /\ IF CompleteAccepted(res)
       THEN AdapterReturns(<<"https://www.rootz.so", "/d/", shortId>>)
       ELSE AdapterThrows
    /\ UNCHANGED <<fileSize, totalParts, presignedUrls, parallelism, i, status, attempt,
                   delay, etag, puts, fails, uploadedParts, completedParts, calls,
                   completeParts, outOfOrder, batches, headers>>
    /\ UNCHANGED pureVars

NextLarge ==
    \/ UploadToCloudReturnsUndefined
    \/ BuzzStart
    \/ \E res \in Responses : BuzzResponds(res)
    \/ UploadSmallStart
    \/ \E res \in Responses, shortId \in ShortIds : SmallResponds(res, shortId)
    \/ UploadLargeStart
    \/ \E res \in Responses, total \in 0..MaxParts : InitResponds(res, total)
    \/ \E res \in Responses : UrlsResponds(res)
    \/ \E p \in Parts, ok \in BOOLEAN, header \in EtagHeaders : PutResponds(p, ok, header)
    \/ \E p \in Parts : BackoffElapses(p)
    \/ \E res \in Responses, shortId \in ShortIds : CompleteResponds(res, shortId)
    \/ \E ok \in BOOLEAN : SendNotificationReturns(TheRun, ok)

SpecLarge == InitLarge /\ [][NextLarge]_vars

\* ------------------------------------------------------------------ claims on SpecLarge
\* the upload went to uploadLarge
Multipart == calls # <<>> /\ calls[1] = "init"
\* the parts whose uploadPart call has started and not settled
InFlight == {p \in Parts : status[p] \in {"put", "wait"}}
\* the batch (0, 1, ...) that part p belongs to
BatchOf(p) == (p - 1) \div parallelism

\* C6: the complete request is issued only with a parts list that holds exactly one
\* PartResult for every part number in 1..totalParts and nothing else; while some
\* part number has no PartResult no complete request is issued.
C6_CompleteHasEveryPart ==
    /\ CompleteIssued =>
           /\ Len(completeParts) = totalParts
           /\ \A n \in 1..totalParts :
                  /\ Cardinality({k \in DOMAIN completeParts :
                                      completeParts[k].partNumber = n}) = 1
                  /\ status[n] = "ok"
    /\ phase = "done" /\ Multipart => CompleteIssued
    /\ (\E n \in 1..totalParts : status[n] = "failed") => phase = "failed"
\* a session of two batches has sent its complete request
C6_Witness ==
    /\ CompleteIssued
    /\ totalParts = MaxParts
    /\ parallelism < totalParts

\* C7: the parts list of the complete request is strictly ascending by partNumber,
\* whatever the order in which the concurrent parts completed.
C7_CompleteSorted ==
    CompleteIssued =>
        \A k \in 1..(Len(completeParts) - 1) :
            completeParts[k].partNumber < completeParts[k + 1].partNumber
\* complete was sent after parts of one batch had succeeded out of their order
C7_Witness ==
    /\ CompleteIssued
    /\ outOfOrder
    /\ Len(completeParts) = MaxParts

\* C8: once a part has failed all 3 attempts the session has failed (uploadLarge
\* threw), no complete request is issued for it, and no part of a later batch has
\* been started.
C8_FailedPartAborts ==
    \A p \in 1..totalParts :
        status[p] = "failed" =>
            /\ phase = "failed"
            /\ ~CompleteIssued
            /\ \A q \in 1..totalParts :
                   q > i + parallelism => status[q] = "idle" /\ puts[q] = 0
\* a part of the first batch has failed while a later batch was still to come
C8_Witness ==
    /\ \E p \in 1..totalParts : status[p] = "failed" /\ fails[p] = 3
    /\ i = 0
    /\ parallelism < totalParts

\* C9: a part is PUT at most 3 times; each PUT after the first follows a failed
\* attempt; the wait before retry k (k = 1, 2) is 2^(k-1) seconds; a part fails only
\* after exactly 3 failed attempts; a successful attempt is the part's last PUT.
C9_PartRetry ==
    \A p \in Parts :
        /\ puts[p] <= 3
        /\ puts[p] <= fails[p] + 1
        /\ status[p] = "put" => puts[p] = fails[p] + 1
        /\ status[p] = "wait" => /\ fails[p] \in {1, 2}
                                 /\ puts[p] = fails[p]
                                 /\ delay[p] = (2 ^ (fails[p] - 1)) * 1000
        /\ status[p] = "failed" => puts[p] = 3 /\ fails[p] = 3
        /\ status[p] = "ok" => puts[p] = fails[p] + 1
\* one part waits 2 s for its third attempt, another has exhausted its attempts,
\* a third succeeded on a retry
C9_Witness ==
    /\ \E p \in Parts : status[p] = "wait" /\ delay[p] = 2000
    /\ \E p \in Parts : status[p] = "failed"
    /\ \E p \in Parts : status[p] = "ok" /\ puts[p] = 2

\* C10: the part uploads in flight never exceed parallelism, and no part of a batch
\* is started before every part of the earlier batches has settled.
C10_BoundedWindow ==
    /\ Cardinality(InFlight) <= parallelism
    /\ parallelism > 0 =>
           \A p, q \in 1..totalParts :
               BatchOf(q) < BatchOf(p) /\ status[p] # "idle"
                   => status[q] \in {"ok", "failed"}
\* a part of the second batch is in flight
C10_Witness ==
    /\ parallelism > 0
    /\ \E p \in InFlight : BatchOf(p) = 1
    /\ Cardinality({p \in Parts : status[p] = "ok"}) = parallelism

\* the order of the remote calls of a multipart session
SessionOrder == <<"init", "batch-urls", "complete">>
\* the step issues the call named `call`
Issues(call) == calls' # calls /\ calls'[Len(calls')] = call

\* C12: the remote calls of a multipart session follow the order init, batch-urls,
\* part PUTs, complete: batch-urls is issued only when init answered with success,
\* a part is PUT only once the presigned URLs have arrived, complete is issued only
\* when every part has succeeded, a URL is returned only when complete answered with
\* success, and a session that has failed or returned issues no further init,
\* batch-urls or complete call.
C12_CallOrder ==
    [][Multipart' =>
        /\ Len(calls') <= 3 /\ calls' = SubSeq(SessionOrder, 1, Len(calls'))
        /\ Issues("batch-urls") =>
               \E res \in Responses, total \in 0..MaxParts :
                   InitAccepted(res) /\ InitResponds(res, total)
        /\ \A p \in Parts : puts'[p] > puts[p] => presignedUrls' /\ ~CompleteIssued'
        /\ Issues("complete") =>
               /\ presignedUrls'
               /\ \A n \in 1..totalParts : status'[n] = "ok"
        /\ downloadUrl' # downloadUrl =>
               \E res \in Responses, shortId \in ShortIds :
                   res.body = "true" /\ CompleteResponds(res, shortId)
        /\ phase \in {"failed", "done"} => calls' = calls]_vars
\* a session of two batches has gone through init, batch-urls, its PUTs and complete,
\* and has returned its URL
C12_Witness ==
    /\ Multipart
    /\ phase = "done"
    /\ downloadUrl # NoUrl
    /\ totalParts = MaxParts
    /\ parallelism < totalParts

\* the step is the arrival of the answer res to an adapter's request (the small
\* upload, init, batch-urls, complete, or buzzheavier's PUT)
AdapterResponds(res) ==
    \/ BuzzResponds(res)
    \/ \E shortId \in ShortIds : SmallResponds(res, shortId)
    \/ \E total \in 0..MaxParts : InitResponds(res, total)
    \/ UrlsResponds(res)
    \/ \E shortId \in ShortIds : CompleteResponds(res, shortId)

\* C13: every adapter call (rootz small upload, multipart init, batch-urls and
\* complete, buzzheavier PUT) that receives a non-2xx response makes the adapter
\* throw and return no URL, whatever the body of the response holds.
C13_Non2xxThrows ==
    [][\A res \in Responses :
          ~res.ok /\ AdapterResponds(res)
              => phase' = "failed" /\ downloadUrl' = NoUrl /\ calls' = calls]_vars

\* how many times the session has issued the call named `call`
TimesIssued(seq, call) == Cardinality({k \in DOMAIN seq : seq[k] = call})
\* after the step uploadLarge has thrown, without having issued a call in the step
ThrewAtOnce ==
    /\ phase' = "failed"
    /\ pc'[TheRun] = "idle"
    /\ lastThrew' # NullHash
    /\ calls' = calls
    /\ puts' = puts

\* C14: in one upload attempt each of init, batch-urls and complete is issued at most
\* once; a non-2xx init answer, a batch-urls answer with success: false, or a complete
\* answer with success: false makes uploadLarge throw at once, without re-issuing
\* that call and without issuing any later call of the session.
C14_NoRetryOfCalls ==
    [][/\ \A call \in {"init", "batch-urls", "complete"} : TimesIssued(calls', call) <= 1
       /\ \A res \in Responses :
              /\ ~res.ok /\ (\E total \in 0..MaxParts : InitResponds(res, total))
                     => ThrewAtOnce
              /\ res.body = "false" /\ UrlsResponds(res) => ThrewAtOnce
              /\ res.body = "false" /\ (\E shortId \in ShortIds : CompleteResponds(res, shortId))
                     => ThrewAtOnce
       /\ phase = "failed" => calls' = calls
       /\ phase = "failed" /\ InFlight = {} => puts' = puts]_vars
\* batch-urls answered success: false: the session has failed with init and batch-urls
\* issued once each, no part PUT and no complete call
C14_Witness ==
    /\ phase = "failed"
    /\ calls = <<"init", "batch-urls">>
    /\ ~presignedUrls
    /\ totalParts = MaxParts
    /\ \A p \in Parts : puts[p] = 0

\* C15: when every part of a multipart session succeeded but the complete call
\* reports failure, the upload is surfaced as a failure: uploadLarge throws,
\* checkForChanges gets no URL (lastLink keeps its value), lastHash is not updated,
\* and no notification is sent, neither then nor later.
C15_CompleteFailureSurfaced ==
    [][/\ \A res \in Responses :
              res.body # "true" /\ (\E shortId \in ShortIds : CompleteResponds(res, shortId))
                  => /\ \A n \in 1..totalParts : status[n] = "ok"
                     /\ phase' = "failed"
                     /\ downloadUrl' = NoUrl
                     /\ lastThrew' = MD5(saveFile[1])
                     /\ lastLink' = lastLink /\ lastLinkDate' = lastLinkDate
                     /\ lastHash' = lastHash
                     /\ pc'[TheRun] = "idle"
       /\ phase = "failed" /\ CompleteIssued
              => /\ lastHash' = InitialLastHash
                 /\ lastLink' = NoBackupsYet
                 /\ pc'[TheRun] = "idle"]_vars
\* every part of a session of two batches succeeded and complete reported failure
C15_Witness ==
    /\ phase = "failed"
    /\ CompleteIssued
    /\ totalParts = MaxParts
    /\ parallelism < totalParts
    /\ \A n \in 1..totalParts : status[n] = "ok"
    /\ lastHash = InitialLastHash

\* buzzheavier is configured as authenticated and no account id is configured
MissingCredential(cfg) ==
    cfg.cloudService = "buzzheavier" /\ ~cfg.anonymous /\ cfg.accountId = Null

\* C16: when buzzheavier is configured as authenticated (anonymous is false) and no
\* accountId is configured, an upload attempt fails (no URL comes back, nothing is
\* notified) without any network request being issued to the provider.
C16_NoRequestWithoutCredential ==
    MissingCredential(config) =>
        /\ calls = <<>>
        /\ \A p \in Parts : puts[p] = 0
        /\ phase = "idle"
        /\ downloadUrl = NoUrl
        /\ lastLink = NoBackupsYet
        /\ pc[TheRun] \in {"calculateHash", "idle"}
\* the check that found a changed save has ended without a credential
C16_Witness ==
    /\ MissingCredential(config)
    /\ candidateSeen
    /\ pc[TheRun] = "idle"

\* ------------------------------------------------------------------ uploadPart's slices
\* the provider's totalParts for a file of `size` bytes cut into chunks of `chunk` bytes
Ceil(size, chunk) == (size + chunk - 1) \div chunk

\* const start = (partNumber - 1) * chunkSize
PartStart(partNumber, chunk) == (partNumber - 1) * chunk
\* an end that is not clamped to the file size
PartEndUnclamped(partNumber, chunk, size) == PartStart(partNumber, chunk) + chunk
\* const end = Math.min(start + chunkSize, fileSize)
PartEnd(partNumber, chunk, size) == Min(PartStart(partNumber, chunk) + chunk, size)

\* uploadLarge has read { chunkSize, totalParts } from the init answer of a provider
\* that cuts the file into ceil(fileSize / chunkSize) parts; fileSize is in bytes here
InitRanges ==
    /\ InitCheckIdle
    /\ InitUi
    /\ fileSize \in 1..MaxSize
    /\ chunkSize \in 1..MaxChunk
    /\ totalParts = Ceil(fileSize, chunkSize)
    /\ ranges = <<>>
    /\ InitDirIdle
    /\ InitNameIdle
    /\ phase = "idle"
    /\ presignedUrls = FALSE
    /\ parallelism = 0
    /\ i = 0
    /\ status = [p \in Parts |-> "idle"]
    /\ attempt = [p \in Parts |-> 0]
    /\ delay = [p \in Parts |-> 0]
    /\ etag = [p \in Parts |-> NoEtag]
    /\ puts = [p \in Parts |-> 0]
    /\ fails = [p \in Parts |-> 0]
    /\ uploadedParts = <<>>
    /\ completedParts = 0
    /\ calls = <<>>
    /\ completeParts = <<>>
    /\ downloadUrl = NoUrl
    /\ outOfOrder = FALSE
    /\ batches = <<>>
    /\ headers = {}

\* uploadPart(partNumber), called for the part numbers in ascending order, computes
\* the slice Bun.file(filePath).slice(start, end) of its part
SlicePart ==
    /\ Len(ranges) < totalParts
    /\ LET partNumber == Len(ranges) + 1 IN
       ranges' = Append(ranges, [start |-> PartStart(partNumber, chunkSize),
                                 end |-> PartEnd(partNumber, chunkSize, fileSize)])
    /\ UNCHANGED <<chunkSize, dirEntries, dirReadable, startTime, latest,
                   originalName, backupPrefix, formatted, uiVars>>
    /\ UNCHANGED checkVars
    /\ UNCHANGED largeVars

NextRanges == SlicePart

SpecRanges == InitRanges /\ [][NextRanges]_vars

\* ------------------------------------------------------------------ claims on SpecRanges
\* the bytes of the slice [start, end)
Bytes(range) == {b \in 0..(MaxSize + MaxChunk) : range.start <= b /\ b < range.end}

\* C11: with totalParts = ceil(S / C), the slices [(n-1)*C, min(n*C, S)) that
\* uploadPart computes for n in 1..totalParts are each non-empty, pairwise disjoint,
\* and together cover exactly the bytes [0, S).
C11_RangesTile ==
    /\ \A n \in DOMAIN ranges :
           /\ ranges[n].start = (n - 1) * chunkSize
           /\ ranges[n].end = Min(n * chunkSize, fileSize)
           /\ ranges[n].start < ranges[n].end
    /\ \A m, n \in DOMAIN ranges : m # n => Bytes(ranges[m]) \cap Bytes(ranges[n]) = {}
    /\ Len(ranges) = totalParts =>
           UNION {Bytes(ranges[n]) : n \in DOMAIN ranges} = 0..(fileSize - 1)
\* every part of a file whose last part is shorter than a chunk has been sliced
C11_Witness ==
    /\ Len(ranges) = totalParts
    /\ totalParts >= 3
    /\ fileSize % chunkSize # 0

\* ------------------------------------------------------------------ getLatestSave
Exts == {".zip", ".dat"}
Times == 0..MaxTime
\* return null
NoSave == <<"null">>
\* a directory of k <= MaxFiles entries; the j-th entry that readdir lists is named
\* <<j, ext>> and was last modified at mtime
Directories ==
    UNION {{[j \in 1..k |-> [name |-> <<j, f[j][1]>>, mtime |-> f[j][2]]] :
                f \in [1..k -> Exts \X Times]} : k \in 0..MaxFiles}

\* f.endsWith('.zip')
EndsWithZip(name) == name[Len(name)] = ".zip"
\* a filter that drops the saves written in the very instant the session started
IsRecentStrict(mtime, since) == mtime > since
\* mtime >= this.startTime
IsRecent(mtime, since) == mtime >= since

\* .sort((a, b) => mtime(b) - mtime(a)): stable, so entries of equal mtime keep their order
RECURSIVE InsertByMtime(_, _)
InsertByMtime(sorted, f) ==
    IF sorted = <<>> THEN <<f>>
    ELSE IF f.mtime - sorted[Len(sorted)].mtime <= 0
         THEN Append(sorted, f)
         ELSE Append(InsertByMtime(SubSeq(sorted, 1, Len(sorted) - 1), f),
                     sorted[Len(sorted)])
RECURSIVE SortByMtime(_)
SortByMtime(files) ==
    IF files = <<>> THEN <<>>
    ELSE InsertByMtime(SortByMtime(SubSeq(files, 1, Len(files) - 1)), files[Len(files)])

\* getLatestSave: the name of the save it returns, or NoSave for null
getLatestSave(files, readable, since) ==
    IF ~readable THEN NoSave
    ELSE LET zips == SelectSeq(files, LAMBDA f : EndsWithZip(f.name))
             recent == SelectSeq(zips, LAMBDA f : IsRecent(f.mtime, since))
             saveFiles == SortByMtime(recent)
         IN IF Len(saveFiles) > 0 THEN saveFiles[1].name ELSE NoSave

InitLatest ==
    /\ InitCheckIdle
    /\ InitUi
    /\ InitLargeIdle
    /\ chunkSize = 0
    /\ ranges = <<>>
    /\ dirEntries \in Directories
    /\ dirReadable \in BOOLEAN
    /\ startTime \in Times
    /\ latest = Pending
    /\ InitNameIdle

\* await this.getLatestSave()
GetLatestSaveCall ==
    /\ latest = Pending
    /\ latest' = getLatestSave(dirEntries, dirReadable, startTime)
    /\ UNCHANGED <<chunkSize, ranges, dirEntries, dirReadable, startTime,
                   originalName, backupPrefix, formatted, uiVars>>
    /\ UNCHANGED checkVars
    /\ UNCHANGED largeVars

NextLatest == GetLatestSaveCall

SpecLatest == InitLatest /\ [][NextLatest]_vars

\* ------------------------------------------------------------------ claims on SpecLatest
\* the .zip entries modified at or after the start of the session
Candidates ==
    {k \in DOMAIN dirEntries :
        dirEntries[k].name[2] = ".zip" /\ dirEntries[k].mtime >= startTime}

\* C20: getLatestSave returns the .zip entry with the greatest modification time
\* among those modified at or after the session start, returns none when there is no
\* such entry, and returns none (it does not throw) when the directory cannot be read.
C20_LatestSave ==
    latest # Pending =>
        IF dirReadable /\ Candidates # {}
        THEN \E k \in Candidates :
                 /\ latest = dirEntries[k].name
                 /\ \A j \in Candidates : dirEntries[j].mtime <= dirEntries[k].mtime
        ELSE latest = NoSave
\* the save returned was modified in the instant the session started, in a directory
\* that also holds an older .zip and a newer file that is not a .zip
C20_Witness ==
    /\ latest \notin {Pending, NoSave}
    /\ \E k \in Candidates : latest = dirEntries[k].name /\ dirEntries[k].mtime = startTime
    /\ \E k \in DOMAIN dirEntries :
           dirEntries[k].name[2] = ".zip" /\ dirEntries[k].mtime < startTime
    /\ \E k \in DOMAIN dirEntries :
           dirEntries[k].name[2] # ".zip" /\ dirEntries[k].mtime > startTime

\* ------------------------------------------------------------------ formatBackupName
\* A string is held as its underscore-separated segments, so that joining with '_'
\* and split('_') are the two directions of this representation. A segment is a run
\* of characters <<"w", c1, c2, ...>> (<<"w">> is the empty run), 8 digits
\* <<"d8", t>> or 6 digits <<"d6", t>>, t naming the instant the digits spell.
EmptySeg == <<"w">>
AutosaveSeg == <<"w", "autosave1">>
DateSeg(t) == <<"d8", t>>
TimeSeg(t) == <<"d6", t>>
\* the segments a save's name is made of
NameSegs == {<<"w", "a">>, <<"w", "b">>, <<"w", "p">>, EmptySeg, AutosaveSeg, DateSeg("t0"), TimeSeg("t0")}
Names == UNION {[1..k -> NameSegs] : k \in 1..MaxSegs}
\* the characters config.backupPrefix is typed with
PrefixChars == {"p", " ", "_"}
Prefixes == UNION {[1..k -> PrefixChars] : k \in 0..MaxPrefix}

\* .replace(/[^a-zA-Z0-9_-]/g, '_')
Sanitize(chars) == [k \in DOMAIN chars |-> IF chars[k] \in {"p", "_"} THEN chars[k] ELSE "_"]
\* split('_') of a sequence of characters
RECURSIVE Split(_)
Split(chars) ==
    IF \A k \in DOMAIN chars : chars[k] # "_" THEN <<EmptySeg \o chars>>
    ELSE LET k == CHOOSE k \in DOMAIN chars :
                      chars[k] = "_" /\ \A j \in 1..(k - 1) : chars[j] # "_"
         IN <<EmptySeg \o SubSeq(chars, 1, k - 1)>> \o Split(SubSeq(chars, k + 1, Len(chars)))
\* prefixStr, and finalPrefix = prefixStr ? prefixStr + '_' : '', as the segments it
\* puts in front of the base name
PrefixSegs(prefix) == IF prefix = <<>> THEN <<>> ELSE Split(Sanitize(prefix))

\* baseName.replace(/_\d{8}_\d{6}$/, '')
StripTimestamp(segs) ==
    IF /\ Len(segs) >= 3
       /\ segs[Len(segs) - 1][1] = "d8"
       /\ segs[Len(segs)][1] = "d6"
    THEN SubSeq(segs, 1, Len(segs) - 2)
    ELSE segs
\* baseName.startsWith('_autosave')
StartsWithAutosave(segs) == Len(segs) >= 2 /\ segs[1] = EmptySeg /\ segs[2] = AutosaveSeg
\* if (parts.length > 1 && !baseName.startsWith('_autosave')) parts.slice(1).join('_')
StripFirst(segs) ==
    IF Len(segs) > 1 /\ ~StartsWithAutosave(segs) THEN Tail(segs) ELSE segs

\* formatBackupName(originalName) at the instant t, without the trailing .zip that it
\* strips on entry and appends on return
formatBackupName(name, prefix, t) ==
    PrefixSegs(prefix) \o StripFirst(StripTimestamp(name)) \o <<DateSeg(t), TimeSeg(t)>>

InitName ==
    /\ InitCheckIdle
    /\ InitUi
    /\ InitLargeIdle
    /\ chunkSize = 0
    /\ ranges = <<>>
    /\ InitDirIdle
    /\ originalName \in Names
    /\ backupPrefix \in Prefixes
    /\ formatted = <<>>

\* formatBackupName is applied to the save's name, and then to the name it returned
FormatName ==
    /\ Len(formatted) < 2
    /\ formatted' =
           IF formatted = <<>>
           THEN <<formatBackupName(originalName, backupPrefix, "t1")>>
           ELSE Append(formatted, formatBackupName(formatted[1], backupPrefix, "t2"))
    /\ UNCHANGED <<chunkSize, ranges, dirEntries, dirReadable, startTime, latest,
                   originalName, backupPrefix, uiVars>>
    /\ UNCHANGED checkVars
    /\ UNCHANGED largeVars

NextName == FormatName

SpecName == InitName /\ [][NextName]_vars

\* ------------------------------------------------------------------ claims on SpecName
\* a formatted name without the timestamp it ends with
WithoutStamp(segs) == SubSeq(segs, 1, Len(segs) - 2)
\* the number of timestamps (8 digits, underscore, 6 digits, after an underscore) in a name
Timestamps(segs) ==
    Cardinality({k \in 2..(Len(segs) - 1) : segs[k][1] = "d8" /\ segs[k + 1][1] = "d6"})

\* C21: formatBackupName applied to its own output (same configured prefix) yields
\* a name with the same prefix and the same base name, differing at most in the
\* timestamp, and holding exactly one timestamp suffix; for every input name.
C21_FormatIdempotent ==
    Len(formatted) = 2 =>
        /\ WithoutStamp(formatted[2]) = WithoutStamp(formatted[1])
        /\ Timestamps(formatted[2]) = 1

\* a name without the configured prefix token it starts with, if it starts with it
WithoutPrefix(segs, prefix) ==
    LET token == PrefixSegs(prefix)
    IN IF /\ token # <<>>
          /\ Len(segs) > Len(token)
          /\ SubSeq(segs, 1, Len(token)) = token
       THEN SubSeq(segs, Len(token) + 1, Len(segs))
       ELSE segs

\* C22: formatBackupName removes from the name only a trailing timestamp suffix and
\* a leading configured prefix token: every other segment of the name is in the
\* output, unchanged and in order, between the prefix and the new timestamp.
C22_OnlyStampAndPrefixRemoved ==
    Len(formatted) >= 1 =>
        formatted[1] = PrefixSegs(backupPrefix)
                       \o WithoutPrefix(StripTimestamp(originalName), backupPrefix)
                       \o <<DateSeg("t1"), TimeSeg("t1")>>

\* ------------------------------------------------------------------ the menu's settings
\* the menu items whose action assigns a field of this.config in onKeypress itself
ConfigItems == {"conf_discord_webhook", "conf_backup_prefix"}
\* what `await input(...) || null` yields for the webhook
Webhooks == {Null, "hook", "hook2"}
\* what `await input(...) || null` yields for the prefix (<<>> is null)
TypedPrefixes == {<<>>, <<"p">>}

\* onKeypress, return on a settings item: the listener is removed and the action
\* awaits the prompt; the timer of startAutoBackup stays armed
SelectConfigure(item) ==
    /\ menu = "menu"
    /\ listeners > 0
    /\ menu' = item
    /\ PauseInput
    /\ UNCHANGED <<config, lastHash, lastLink, lastLinkDate, timerVars, saveFile,
                   pc, currentHash, menuRun, lastThrew, candidateSeen>>
    /\ UNCHANGED largeVars
    /\ UNCHANGED dataVars

\* the webhook prompt settles: this.config.discordWebhook is assigned, then
\* `await saveConfig(this.config)`
WebhookEntered(w) ==
    /\ menu = "conf_discord_webhook"
    /\ config' = [config EXCEPT !.discordWebhook = w]
    /\ menu' = "saveConfig"
    /\ UNCHANGED <<lastHash, lastLink, lastLinkDate, timerVars, saveFile,
                   pc, currentHash, menuRun, lastThrew, candidateSeen>>
    /\ UNCHANGED largeVars
    /\ UNCHANGED pureVars

\* the prefix prompt settles: this.config.backupPrefix is assigned, then
\* `await saveConfig(this.config)`
PrefixEntered(prefix) ==
    /\ menu = "conf_backup_prefix"
    /\ backupPrefix' = prefix
    /\ menu' = "saveConfig"
    /\ UNCHANGED <<chunkSize, ranges, dirEntries, dirReadable, startTime, latest,
                   originalName, formatted, uiVars>>
    /\ UNCHANGED <<config, lastHash, lastLink, lastLinkDate, timerVars, saveFile,
                   pc, currentHash, menuRun, lastThrew, candidateSeen>>
    /\ UNCHANGED largeVars

\* the prompt rejects (the user leaves it): catch logs, finally shows the return prompt
PromptThrows ==
    /\ menu \in ConfigItems
    /\ menu' = "prompt"
    /\ UNCHANGED <<config, lastHash, lastLink, lastLinkDate, timerVars, saveFile,
                   pc, currentHash, menuRun, lastThrew, candidateSeen>>
    /\ UNCHANGED largeVars
    /\ UNCHANGED pureVars

\* saveConfig settles (it logs its own errors): startAutoBackup() clears the timer and
\* arms a new one, and finally shows the return prompt
SaveConfigReturns ==
    /\ menu = "saveConfig"
    /\ StartAutoBackup
    /\ menu' = "prompt"
    /\ UNCHANGED <<config, lastHash, lastLink, lastLinkDate, saveFile,
                   pc, currentHash, menuRun, lastThrew, candidateSeen>>
    /\ UNCHANGED largeVars
    /\ UNCHANGED pureVars

NextConfig ==
    \/ Next
    \/ \E item \in ConfigItems : SelectConfigure(item)
    \/ \E w \in Webhooks : WebhookEntered(w)
    \/ \E prefix \in TypedPrefixes : PrefixEntered(prefix)
    \/ PromptThrows
    \/ SaveConfigReturns

SpecConfig == Init /\ [][NextConfig]_vars

\* ------------------------------------------------------------------ claims on SpecConfig
\* C23: while a check is in progress (some checkForChanges run is between its start
\* and its end), no step mutates or replaces this.config: the webhook, the prefix and
\* the backend it names stay what they were when the run started.
C23_ConfigFrozenDuringCheck ==
    [][(\E r \in Runs : pc[r] # "idle") =>
           config' = config /\ backupPrefix' = backupPrefix]_vars

\* ------------------------------------------------------------------ more claims on SpecLarge
\* C24: the Rootz adapter takes the multipart path (its first request is init) exactly
\* when the file size reaches multipartThreshold, and the single-request path (its
\* first request is the upload POST) exactly when the size is below it; a file of
\* exactly the threshold goes multipart.
C24_MultipartIffAtThreshold ==
    config.cloudService = "rootz" /\ calls # <<>> =>
        /\ calls[1] = "init" <=> fileSize >= multipartThreshold
        /\ calls[1] = "upload" <=> fileSize < multipartThreshold
\* a file of exactly the threshold has been sent as a multipart session
C24_Witness ==
    /\ config.cloudService = "rootz"
    /\ fileSize = multipartThreshold
    /\ Multipart
    /\ phase = "done"

\* ------------------------------------------------------------------ getOptimalParallelism
\* the steps of getOptimalParallelism, in MiB
Steps == {1 * GiB, 10 * GiB, 50 * GiB}
\* file sizes at and around each step, and the smallest files
SizesNearSteps ==
    (0..MaxDelta) \cup {b + d : b \in Steps, d \in 0..MaxDelta}
                  \cup {b - d : b \in Steps, d \in 0..MaxDelta}

\* uploadLarge has its presigned URLs for a file of fileSize MiB
InitParallelism ==
    /\ InitCheckIdle
    /\ InitPureIdle
    /\ fileSize \in SizesNearSteps
    /\ parallelism = 0
    /\ phase = "idle"
    /\ totalParts = 0
    /\ presignedUrls = TRUE
    /\ i = 0
    /\ status = [p \in Parts |-> "idle"]
    /\ attempt = [p \in Parts |-> 0]
    /\ delay = [p \in Parts |-> 0]
    /\ etag = [p \in Parts |-> NoEtag]
    /\ puts = [p \in Parts |-> 0]
    /\ fails = [p \in Parts |-> 0]
    /\ uploadedParts = <<>>
    /\ completedParts = 0
    /\ calls = <<>>
    /\ completeParts = <<>>
    /\ downloadUrl = NoUrl
    /\ outOfOrder = FALSE
    /\ batches = <<>>
    /\ headers = {}

\* const parallelism = getOptimalParallelism(fileSize)
ChooseParallelism ==
    /\ parallelism = 0
    /\ parallelism' = getOptimalParallelism(fileSize)
    /\ UNCHANGED <<phase, fileSize, totalParts, presignedUrls, i, status, attempt, delay,
                   etag, puts, fails, uploadedParts, completedParts, calls,
                   completeParts, downloadUrl, outOfOrder,
                   batches, headers>>
    /\ UNCHANGED checkVars
    /\ UNCHANGED pureVars

NextParallelism == ChooseParallelism

SpecParallelism == InitParallelism /\ [][NextParallelism]_vars

\* ------------------------------------------------------------------ claims on SpecParallelism
\* C25: the parallelism chosen for a file is 3 above 50 GiB, 4 above 10 GiB up to
\* 50 GiB, 5 above 1 GiB up to 10 GiB, and 6 otherwise; a size exactly on a boundary
\* gets the larger parallelism.
C25_ParallelismSteps ==
    parallelism # 0 =>
        /\ fileSize > 50 * GiB => parallelism = 3
        /\ 10 * GiB < fileSize /\ fileSize <= 50 * GiB => parallelism = 4
        /\ 1 * GiB < fileSize /\ fileSize <= 10 * GiB => parallelism = 5
        /\ fileSize <= 1 * GiB => parallelism = 6
\* the parallelism of a file of exactly 10 GiB has been chosen
C25_Witness ==
    /\ fileSize = 10 * GiB
    /\ parallelism = 5

\* ------------------------------------------------------------------ batches, on SpecLarge
\* C26: when the complete request of a session is issued, every part number in
\* 1..totalParts has been dispatched in exactly one batch, each batch is a contiguous
\* range of at most parallelism part numbers that starts right after the batch before
\* it (the first at 1), the number of batches is ceil(totalParts / parallelism), and
\* the complete request lists the parts 1, 2, ..., totalParts.
C26_BatchesCoverParts ==
    CompleteIssued =>
        /\ Len(batches) = Ceil(totalParts, parallelism)
        /\ \A n \in 1..totalParts :
               Cardinality({k \in DOMAIN batches : n \in batches[k]}) = 1
        /\ \A k \in DOMAIN batches :
               \E a, b \in 1..totalParts :
                   /\ batches[k] = a..b
                   /\ a <= b
                   /\ b - a + 1 <= parallelism
                   /\ k = 1 => a = 1
                   /\ k > 1 => \A m \in batches[k - 1] : m = a - 1 \/ m < a - 1
                   /\ k > 1 => a - 1 \in batches[k - 1]
        /\ Len(completeParts) = totalParts
        /\ \A k \in DOMAIN completeParts : completeParts[k].partNumber = k
\* a session of two batches has issued its complete request
C26_Witness ==
    /\ CompleteIssued
    /\ Len(batches) = 2
    /\ batches[2] # {}
    /\ totalParts = MaxParts

\* C27: every PartResult of the complete request carries the ETag that the
\* successful PUT of its part number returned: none is recorded with a missing ETag.
C27_PartResultsCarryEtag ==
    CompleteIssued =>
        \A k \in DOMAIN completeParts :
            /\ completeParts[k].etag = etag[completeParts[k].partNumber]
            /\ completeParts[k].etag # NoEtag

\* C28: once uploadLarge has thrown, no part upload of the session is in flight (no
\* PUT outstanding, no retry pending), and no PUT is issued afterwards.
C28_NothingInFlightAfterFailure ==
    phase = "failed" => InFlight = {}

\* the batches every part of which has succeeded
SucceededBatches == {k \in DOMAIN batches : \A p \in batches[k] : status[p] = "ok"}

\* C29: completedParts changes only in a step in which a whole batch has succeeded;
\* after k successful batches it is min(k * parallelism, totalParts); it never
\* decreases, never exceeds totalParts, and is totalParts when complete is issued.
C29_ProgressPerBatch ==
    /\ [](/\ completedParts = Min(Cardinality(SucceededBatches) * parallelism, totalParts)
          /\ completedParts <= totalParts
          /\ CompleteIssued => completedParts = totalParts)
    /\ [][/\ completedParts' >= completedParts
          /\ completedParts' # completedParts =>
                 /\ Cardinality(SucceededBatches') = Cardinality(SucceededBatches) + 1
                 /\ \A p \in batches[Len(batches)] : status'[p] = "ok"]_vars
\* the first of two batches has succeeded and the second is being uploaded
C29_Witness ==
    /\ phase = "parts"
    /\ Len(batches) = 2
    /\ completedParts = parallelism
    /\ completedParts < totalParts

\* C30: the Rootz adapter returns a download URL only in the step in which the last
\* call of its path (the upload POST on the single-request path, complete on the
\* multipart path) is answered with success: true, and that URL is
\* <endpoint>/d/<shortId> with the shortId of that answer; an answer with
\* success: false (or without JSON) makes it throw and no URL is returned.
C30_UrlOnlyAfterSuccess ==
    /\ [](config.cloudService = "rootz" /\ downloadUrl # NoUrl =>
              /\ phase = "done"
              /\ calls[Len(calls)] = IF Multipart THEN "complete" ELSE "upload")
    /\ [][/\ config.cloudService = "rootz" /\ downloadUrl' # downloadUrl =>
                 \E shortId \in ShortIds :
                     /\ downloadUrl' = <<"https://www.rootz.so", "/d/", shortId>>
                     /\ \E res \in Responses :
                            /\ res.body = "true"
                            /\ \/ SmallResponds(res, shortId)
                               \/ CompleteResponds(res, shortId)
          /\ \A res \in Responses, shortId \in ShortIds :
                 /\ res.body # "true"
                 /\ SmallResponds(res, shortId) \/ CompleteResponds(res, shortId)
                 => phase' = "failed" /\ downloadUrl' = NoUrl]_vars
\* the single-request path has returned the URL of the second short id
C30_Witness ==
    /\ config.cloudService = "rootz"
    /\ calls = <<"upload">>
    /\ phase = "done"
    /\ downloadUrl = <<"https://www.rootz.so", "/d/", "xyz789">>

\* ------------------------------------------------------------------ buzzheavier's credential
\* the request carries an Authorization header
Authorized == \E h \in headers : h[1] = "Authorization"

\* C31: the PUT of the Buzzheavier adapter carries a bearer Authorization header
\* (Bearer <accountId>) exactly when anonymous is false and an accountId is
\* configured; in anonymous mode it carries none, even with an accountId configured.
C31_BearerIffAuthenticated ==
    config.cloudService = "buzzheavier" /\ calls # <<>> =>
        /\ Authorized <=> (~config.anonymous /\ config.accountId # Null)
        /\ Authorized => headers = {<<"Content-Type", "application/zip">>,
                                    <<"Authorization", "Bearer", config.accountId>>}
        /\ config.anonymous => headers = {<<"Content-Type", "application/zip">>}
\* an anonymous upload with an account id configured has been answered
C31_Witness ==
    /\ config.cloudService = "buzzheavier"
    /\ config.anonymous
    /\ config.accountId # Null
    /\ calls = <<"put">>
    /\ phase = "done"

\* ------------------------------------------------------------------ the two monitors' timers
\* The stdin-driven monitor (the earlier backup-factorio.js) shares the variables of
\* the menu-driven one; `menu` is "stdin" while it listens, "stdin_setup" while it
\* awaits runInteractiveSetup and "stdin_save" while it awaits saveConfig.

\* what runInteractiveSetup returns: rootz, buzzheavier anonymous, or buzzheavier
\* with an account id, with or without a webhook
SetupConfigs == {c \in Configs : uploadToCloud(c) = "adapter"}

\* stdin data, Enter: if (this.isReconfiguring) return; await this.checkForChanges()
StdinEnter ==
    /\ menu = "stdin"
    /\ ~isReconfiguring
    /\ FreeRuns # {}
    /\ StartCheck(NextRun)
    /\ UNCHANGED <<config, lastHash, lastLink, lastLinkDate, timerVars, saveFile,
                   currentHash, menu, menuRun, lastThrew, candidateSeen>>
    /\ UNCHANGED largeVars
    /\ UNCHANGED pureVars

\* stdin data, "c": isReconfiguring is set, the timer is cleared, and the handler
\* awaits runInteractiveSetup
StdinReconfigure ==
    /\ menu = "stdin"
    /\ ~isReconfiguring
    /\ isReconfiguring' = TRUE
    /\ handleArmed' = FALSE
    /\ menu' = "stdin_setup"
    /\ UNCHANGED <<config, lastHash, lastLink, lastLinkDate, monitorInterval, orphans,
                   saveFile, pc, currentHash, menuRun, lastThrew, candidateSeen>>
    /\ UNCHANGED largeVars
    /\ UNCHANGED pureVars

\* runInteractiveSetup returns the new configuration: await saveConfig(newConfig)
SetupReturns ==
    /\ menu = "stdin_setup"
    /\ menu' = "stdin_save"
    /\ UNCHANGED <<config, lastHash, lastLink, lastLinkDate, timerVars, saveFile,
                   pc, currentHash, menuRun, lastThrew, candidateSeen>>
    /\ UNCHANGED largeVars
    /\ UNCHANGED pureVars

\* the end of the "c" handler: isReconfiguring = false; startMonitoring()
EndReconfigure ==
    /\ monitorInterval' = TRUE
    /\ handleArmed' = TRUE
    /\ orphans' = orphans
    /\ isReconfiguring' = FALSE
    /\ menu' = "stdin"

\* saveConfig settles: this.config = newConfig (the value runInteractiveSetup
\* returned, seen by nothing until here), then the end of the handler
StdinSaveReturns(newConfig) ==
    /\ menu = "stdin_save"
    /\ config' = newConfig
    /\ EndReconfigure
    /\ UNCHANGED <<lastHash, lastLink, lastLinkDate, saveFile,
                   pc, currentHash, menuRun, lastThrew, candidateSeen>>
    /\ UNCHANGED largeVars
    /\ UNCHANGED pureVars

\* runInteractiveSetup rejects: catch logs, then the end of the handler
SetupThrows ==
    /\ menu = "stdin_setup"
    /\ EndReconfigure
    /\ UNCHANGED <<config, lastHash, lastLink, lastLinkDate, saveFile,
                   pc, currentHash, menuRun, lastThrew, candidateSeen>>
    /\ UNCHANGED largeVars
    /\ UNCHANGED pureVars

\* either monitor has started, in a save directory that holds no save: every check
\* ends when getLatestSave returns (no step of a check touches a timer)
InitTimers ==
    /\ config \in SetupConfigs
    /\ menu \in {"menu", "stdin"}
    /\ lastHash = InitialLastHash
    /\ lastLink = NoBackupsYet
    /\ lastLinkDate = "N/A"
    /\ monitorInterval = TRUE
    /\ handleArmed = TRUE
    /\ orphans = 0
    /\ isReconfiguring = FALSE
    /\ saveFile = NoFile
    /\ pc = [r \in Runs |-> "idle"]
    /\ currentHash = [r \in Runs |-> NullHash]
    /\ menuRun = 0
    /\ lastThrew = NullHash
    /\ candidateSeen = FALSE
    /\ InitLargeIdle
    /\ InitPureIdle

NextTimers ==
    \/ TimerTick
    \/ \E r \in Runs, readable \in BOOLEAN : GetLatestSaveReturns(r, readable)
    \/ ForceCheck
    \/ ReturnToMenu
    \/ \E item \in ConfigItems : SelectConfigure(item)
    \/ \E w \in Webhooks : WebhookEntered(w)
    \/ \E prefix \in TypedPrefixes : PrefixEntered(prefix)
    \/ PromptThrows
    \/ SaveConfigReturns
    \/ StdinEnter
    \/ StdinReconfigure
    \/ SetupReturns
    \/ \E newConfig \in SetupConfigs : StdinSaveReturns(newConfig)
    \/ SetupThrows

SpecTimers == InitTimers /\ [][NextTimers]_vars

\* ------------------------------------------------------------------ claims on SpecTimers
\* C32: at most one periodic check timer is armed at any time, whatever sequence of
\* reconfigurations has happened (arming a timer never adds to the armed ones), and
\* while isReconfiguring is true no check is started.
C32_AtMostOneTimer ==
    /\ [](TimersArmed <= 1)
    /\ [][/\ TimersArmed' <= 1
          /\ handleArmed' /\ ~handleArmed => orphans' = 0 /\ orphans = 0
          /\ isReconfiguring =>
                 \A r \in Runs : pc[r] = "idle" => pc'[r] = "idle"]_vars
\* the menu has re-armed the timer after a new webhook was entered, with a check
\* still running
C32_Witness ==
    /\ menu = "prompt"
    /\ config.discordWebhook = "hook2"
    /\ TimersArmed = 1
    /\ \E r \in Runs : pc[r] # "idle"

\* the states of `menu` that belong to the stdin-driven monitor
StdinStates == {"stdin", "stdin_setup", "stdin_save"}
\* a menu action starts in this step
ActionStarts == ForceCheck \/ \E item \in ConfigItems : SelectConfigure(item)

\* C33: menu actions never overlap: from the start of an action until its return
\* prompt has completed no keypress listener (and no render timer) is registered, so
\* no second action can start; whenever the menu is shown again exactly one keypress
\* listener and exactly one render timer are registered, whatever actions ran
\* before, including ones that threw.
C33_ActionsNeverOverlap ==
    /\ [](menu \notin StdinStates =>
              IF menu = "menu"
              THEN listeners = 1 /\ RenderTimers = 1
              ELSE listeners = 0 /\ RenderTimers = 0)
    /\ [][ActionStarts => menu = "menu" /\ listeners = 1 /\ listeners' = 0]_vars
\* the menu is shown again after a settings action has changed the webhook
C33_Witness ==
    /\ menu = "menu"
    /\ config.discordWebhook = "hook2"
    /\ listeners = 1
    /\ RenderTimers = 1

\* ------------------------------------------------------------------ manualUpload
\* what the Manual Upload action leaves alone until its return prompt
ManualFrame ==
    /\ UNCHANGED <<config, lastHash, lastLink, lastLinkDate, timerVars, saveFile,
                   pc, currentHash, menuRun, lastThrew, candidateSeen>>
    /\ UNCHANGED largeVars
    /\ UNCHANGED pureVars

\* onKeypress, return on "Manual Upload": the listener is removed and manualUpload
\* awaits fs.readdir
ManualUploadStart ==
    /\ menu = "menu"
    /\ listeners > 0
    /\ menu' = "upload_readdir"
    /\ PauseInput
    /\ UNCHANGED <<config, lastHash, lastLink, lastLinkDate, timerVars, saveFile,
                   pc, currentHash, menuRun, lastThrew, candidateSeen>>
    /\ UNCHANGED largeVars
    /\ UNCHANGED dataVars

\* fs.readdir settles: it throws (catch), the directory holds no .zip (return), or
\* the list of saves, of any age, is shown and manualUpload awaits select()
ManualReaddirReturns(found) ==
    /\ menu = "upload_readdir"
    /\ menu' = IF found THEN "upload_select" ELSE "prompt"
    /\ ManualFrame

\* select() settles on Cancel or rejects: manualUpload returns
ManualCancelled ==
    /\ menu = "upload_select"
    /\ menu' = "prompt"
    /\ ManualFrame

\* select() settles on a file: formatBackupName, then uploadToCloud, which returns
\* undefined at once or awaits the adapter
ManualSelected ==
    /\ menu = "upload_select"
    /\ menu' = IF uploadToCloud(config) = "adapter" THEN "upload_cloud" ELSE "prompt"
    /\ ManualFrame

\* the adapter throws: the catch of manualUpload logs
ManualUploadThrows ==
    /\ menu = "upload_cloud"
    /\ menu' = "prompt"
    /\ ManualFrame

\* a manualUpload that records what it uploaded as the check does
ManualUploadReturnsRecording(up) ==
    /\ menu = "upload_cloud"
    /\ menu' = IF ShouldNotify(config) THEN "upload_notify" ELSE "prompt"
    /\ lastHash' = IF saveFile = NoFile THEN lastHash ELSE MD5(saveFile[1])
    /\ lastLink' = up.url
    /\ lastLinkDate' = up.date
    /\ UNCHANGED <<config, timerVars, saveFile,
                   pc, currentHash, menuRun, lastThrew, candidateSeen>>
    /\ UNCHANGED largeVars
    /\ UNCHANGED pureVars
\* the adapter returns a URL: if (downloadUrl && this.config.discordWebhook)
\* await sendNotification(...)
ManualUploadReturns(up) ==
    /\ menu = "upload_cloud"
    /\ menu' = IF ShouldNotify(config) THEN "upload_notify" ELSE "prompt"
    /\ ManualFrame

\* sendNotification settles (it never throws): manualUpload returns
ManualNotifyReturns ==
    /\ menu = "upload_notify"
    /\ menu' = "prompt"
    /\ ManualFrame

NextManual ==
    \/ Next
    \/ ManualUploadStart
    \/ \E found \in BOOLEAN : ManualReaddirReturns(found)
    \/ ManualCancelled
    \/ ManualSelected
    \/ ManualUploadThrows
    \/ \E up \in Uploads : ManualUploadReturns(up)
    \/ ManualNotifyReturns

SpecManual == Init /\ [][NextManual]_vars

\* ------------------------------------------------------------------ claims on SpecManual
\* the step belongs to the Manual Upload action
ManualStep ==
    \/ ManualUploadStart
    \/ \E found \in BOOLEAN : ManualReaddirReturns(found)
    \/ ManualCancelled
    \/ ManualSelected
    \/ ManualUploadThrows
    \/ \E up \in Uploads : ManualUploadReturns(up)
    \/ ManualNotifyReturns

\* C34: no step of manualUpload changes lastHash, whether the upload succeeds, fails
\* or is cancelled; so after a manual upload the next check still uploads the latest
\* save unless a check has recorded its content.
C34_ManualUploadKeepsLastHash ==
    /\ [][ManualStep => lastHash' = lastHash]_vars
    /\ [][\A r \in Runs :
             CalculateHashReturns(r) /\ MD5(saveFile[1]) # lastHash
                 => CallsUploadToCloud(r)]_vars
\* a manual upload has succeeded and notified while no check has recorded anything
C34_Witness ==
    /\ menu = "upload_notify"
    /\ saveFile # NoFile
    /\ lastHash = NullHash

\* the step is the one in which the adapter of a check returns the upload `up`
CheckUploaded(up) == \E r \in Runs : UploadReturns(r, up)

\* C37: lastLink and lastLinkDate change only in the step of a checkForChanges run
\* in which the adapter returned a URL, and lastLink is then that URL (lastLinkDate
\* the date taken with it); a failed check, a check without change and every step of
\* a manual upload leave both as they were.
C37_LinkOnlyFromCheckUpload ==
    /\ [][(lastLink' # lastLink \/ lastLinkDate' # lastLinkDate)
              => \E up \in Uploads : /\ CheckUploaded(up)
                                     /\ lastLink' = up.url
                                     /\ lastLinkDate' = up.date]_vars
    /\ [][ManualStep => lastLink' = lastLink /\ lastLinkDate' = lastLinkDate]_vars
\* a manual upload has returned a URL after a check recorded a link
C37_Witness ==
    /\ menu = "upload_notify"
    /\ lastLink # NoBackupsYet

\* ------------------------------------------------------------------ the menu of monitor()
\* menuItems[selectedIndex]
Selected == menuItems[selectedIndex + 1]

\* the selection when the loop never leaves the separators
Diverges == 0 - 1

\* while (menuItems[selectedIndex].type === 'separator')
\*     selectedIndex = (selectedIndex + step + menuItems.length) % menuItems.length;
\* a walk that has gone round every entry without leaving the separators never ends
RECURSIVE SkipSeparators(_, _, _, _)
SkipSeparators(items, idx, step, fuel) ==
    IF items[idx + 1].type # "separator" THEN idx
    ELSE IF fuel = 0 THEN Diverges
    ELSE SkipSeparators(items, (idx + step + Len(items)) % Len(items), step, fuel - 1)

\* a move that stays on whatever entry it reaches
MoveWithoutSkip(items, idx, step) == (idx + step + Len(items)) % Len(items)
\* key.name === 'up' (step -1) or 'down' (step 1)
Move(items, idx, step) ==
    SkipSeparators(items, (idx + step + Len(items)) % Len(items), step, Len(items))

\* what the keys that stay in the menu leave alone
KeyFrame ==
    /\ UNCHANGED checkVars
    /\ UNCHANGED largeVars
    /\ UNCHANGED dataVars
    /\ UNCHANGED <<listeners, countdownArmed, renderOrphans>>

\* onKeypress is registered and no action has removed it
KeyHeard == menu = "menu" /\ listeners > 0

KeyUp ==
    /\ KeyHeard
    /\ selectedIndex' = Move(menuItems, selectedIndex, 0 - 1)
    /\ menuItems' = render(expanded, config)
    /\ UNCHANGED expanded
    /\ KeyFrame

KeyDown ==
    /\ KeyHeard
    /\ selectedIndex' = Move(menuItems, selectedIndex, 1)
    /\ menuItems' = render(expanded, config)
    /\ UNCHANGED expanded
    /\ KeyFrame

\* key.name === 'right': a collapsed toggle under the selection is expanded
KeyRight ==
    /\ KeyHeard
    /\ Selected.type = "toggle"
    /\ Selected.node \notin expanded
    /\ expanded' = expanded \cup {Selected.node}
    /\ menuItems' = render(expanded', config)
    /\ UNCHANGED selectedIndex
    /\ KeyFrame

\* key.name === 'left': an expanded toggle under the selection is collapsed
KeyLeft ==
    /\ KeyHeard
    /\ Selected.type = "toggle"
    /\ Selected.node \in expanded
    /\ expanded' = expanded \ {Selected.node}
    /\ menuItems' = render(expanded', config)
    /\ UNCHANGED selectedIndex
    /\ KeyFrame

\* key.name === 'return' on a toggle: the node is flipped
KeyReturnToggle ==
    /\ KeyHeard
    /\ ~Selected.disabled
    /\ Selected.type = "toggle"
    /\ expanded' = IF Selected.node \in expanded
                   THEN expanded \ {Selected.node}
                   ELSE expanded \cup {Selected.node}
    /\ menuItems' = render(expanded', config)
    /\ UNCHANGED selectedIndex
    /\ KeyFrame

\* key.name === 'return' on a disabled entry: if (item.disabled) return
KeyReturnDisabled ==
    /\ KeyHeard
    /\ Selected.disabled
    /\ UNCHANGED vars

\* key.name === 'return' on "Exit Application": process.exit(0)
KeyReturnExit ==
    /\ KeyHeard
    /\ ~Selected.disabled
    /\ Selected.type = "action"
    /\ Selected.value = "exit"
    /\ menu' = "exited"
    /\ PauseInput
    /\ UNCHANGED <<config, lastHash, lastLink, lastLinkDate, timerVars, saveFile,
                   pc, currentHash, menuRun, lastThrew, candidateSeen>>
    /\ UNCHANGED largeVars
    /\ UNCHANGED dataVars

\* key.name === 'return' on any other action: the listener and the render timer are
\* removed and the action awaits
KeyReturnAction ==
    /\ KeyHeard
    /\ ~Selected.disabled
    /\ Selected.type = "action"
    /\ Selected.value # "exit"
    /\ menu' = "action"
    /\ PauseInput
    /\ UNCHANGED <<config, lastHash, lastLink, lastLinkDate, timerVars, saveFile,
                   pc, currentHash, menuRun, lastThrew, candidateSeen>>
    /\ UNCHANGED largeVars
    /\ UNCHANGED dataVars

\* the entries whose action hands this.config to a helper of config-manager.js
Configurers == {"conf_cloud_service", "conf_buzz_account", "conf_discord_bot"}
\* the entries whose action sets configChanged
Settings == Configurers \cup {"conf_discord_webhook", "conf_check_interval",
                              "conf_backup_prefix", "conf_obfuscate_secrets"}
\* the services a helper can leave in this.config.cloudService
Services == {b.cloudService : b \in Backends}

\* the awaited action settles; a helper may have written any service into
\* this.config.cloudService, whether it then returned or threw; a setting that
\* returned goes on to `await saveConfig(this.config)`
ActionSettles(service, threw) ==
    /\ menu = "action"
    /\ IF Selected.value \in Configurers
       THEN config' = [config EXCEPT !.cloudService = service]
       ELSE service = config.cloudService /\ UNCHANGED config
    /\ menu' = IF Selected.value \in Settings /\ ~threw THEN "saveConfig" ELSE "prompt"
    /\ UNCHANGED <<lastHash, lastLink, lastLinkDate, timerVars, saveFile,
                   pc, currentHash, menuRun, lastThrew, candidateSeen>>
    /\ UNCHANGED largeVars
    /\ UNCHANGED pureVars

\* countdownTimer fires: render()
RenderTick ==
    /\ countdownArmed
    /\ menuItems' = render(expanded, config)
    /\ UNCHANGED <<expanded, selectedIndex>>
    /\ KeyFrame

\* the configurations whose backend the menu can offer
InitMenu ==
    /\ Init
    /\ config.discordWebhook = Null
    /\ config.accountId = Null

NextMenu ==
    \/ KeyUp
    \/ KeyDown
    \/ KeyRight
    \/ KeyLeft
    \/ KeyReturnToggle
    \/ KeyReturnDisabled
    \/ KeyReturnExit
    \/ KeyReturnAction
    \/ \E service \in Services, threw \in BOOLEAN : ActionSettles(service, threw)
    \/ SaveConfigReturns
    \/ ReturnToMenu
    \/ RenderTick

SpecMenu == InitMenu /\ [][NextMenu]_vars

\* C36: whatever keys were pressed and however the configuration changed the entries,
\* selectedIndex is an index of the current menuItems and the entry under it is not
\* a separator; a separator-skipping loop that never ended would leave no index.
C36_SelectionValid ==
    /\ selectedIndex \in 0..(Len(menuItems) - 1)
    /\ Selected.type # "separator"
    /\ menuItems = render(expanded, config) \/ menu \in {"action", "saveConfig", "prompt"}
\* the selection has wrapped past the separator onto the last entry after a helper
\* changed the backend while the cloud section was open
C36_Witness ==
    /\ Selected.value = "exit"
    /\ "config_cloud" \in expanded
    /\ config.cloudService # "buzzheavier"
    /\ menu = "menu"
    /\ \E k \in 1..Len(menuItems) : menuItems[k].type = "separator"

\* ------------------------------------------------------------------ a multipart session that is answered
\* a rootz upload of a file that reaches the multipart threshold
InitMultipart ==
    /\ InitLarge
    /\ config.cloudService = "rootz"
    /\ ~UseSmall(fileSize)

NextMultipart ==
    \/ UploadLargeStart
    \/ \E res \in Responses, total \in 0..MaxParts : InitResponds(res, total)
    \/ \E res \in Responses : UrlsResponds(res)
    \/ \E p \in Parts, ok \in BOOLEAN, header \in EtagHeaders : PutResponds(p, ok, header)
    \/ \E p \in Parts : BackoffElapses(p)
    \/ \E res \in Responses, shortId \in ShortIds : CompleteResponds(res, shortId)
    \/ \E ok \in BOOLEAN : SendNotificationReturns(TheRun, ok)

\* every fetch of uploadLarge settles (it resolves or rejects), each PUT on its own,
\* and every setTimeout of a backoff fires
Answered ==
    /\ WF_vars(\E res \in Responses, total \in 0..MaxParts : InitResponds(res, total))
    /\ WF_vars(\E res \in Responses : UrlsResponds(res))
    /\ \A p \in Parts :
           /\ WF_vars(\E ok \in BOOLEAN, header \in EtagHeaders : PutResponds(p, ok, header))
           /\ WF_vars(BackoffElapses(p))
    /\ WF_vars(\E res \in Responses, shortId \in ShortIds : CompleteResponds(res, shortId))

SpecMultipart == InitMultipart /\ [][NextMultipart]_vars /\ Answered

\* the PUT requests issued for the parts 1..n
RECURSIVE PutsUpTo(_)
PutsUpTo(n) == IF n = 0 THEN 0 ELSE puts[n] + PutsUpTo(n - 1)
\* uploadLarge is between its first request and its return or throw
SessionRunning == phase \in {"init", "urls", "parts", "complete"}
SessionOver == phase \in {"done", "failed"}

\* C35: provided every network call eventually returns or fails, a multipart session
\* that has started ends done or failed and stays so, and it never has issued more
\* than 3 * totalParts part PUT requests.
C35_SessionTerminates ==
    /\ SessionRunning ~> SessionOver
    /\ [][SessionOver => phase' = phase]_vars
    /\ [](PutsUpTo(MaxParts) <= 3 * totalParts)
\* a session is done after three PUT requests for one of its parts
C35_Witness ==
    /\ phase = "done"
    /\ Multipart
    /\ \E p \in Parts : puts[p] = 3

====
